---- MODULE Spec2Model ----
(***************************************************************************)
(* Model of the Modbus/TCP portal core: the register codec                 *)
(* (modbus_portal_cli.build_registers / decode_registers and the           *)
(* pack/unpack helpers), the row executor perform_row, and the batch loops *)
(* of web_portal.run_mapping and modbus_portal_cli.main.                   *)
(*                                                                         *)
(* Text is a sequence of one-character strings.  A Python float that the   *)
(* codec computes is the rational n/d (exact for the decimal literals and  *)
(* scales drawn here); an IEEE-754 single is its four bytes.               *)
(***************************************************************************)
EXTENDS Integers, Sequences, FiniteSets, TLC

\* ------------------------------------------------------------------------
\* Bounds of the model
\* ------------------------------------------------------------------------
MaxRows == 3
MaxSmall == 4
MaxRegs == 3
MaxHost == 5

\* ------------------------------------------------------------------------
\* Characters and text
\* ------------------------------------------------------------------------
UpperChars == <<"A","B","C","D","E","F","G","H","I","J","K","L","M",
                "N","O","P","Q","R","S","T","U","V","W","X","Y","Z">>
LowerChars == <<"a","b","c","d","e","f","g","h","i","j","k","l","m",
                "n","o","p","q","r","s","t","u","v","w","x","y","z">>
DigitChars == <<"0","1","2","3","4","5","6","7","8","9">>

LowerChar(c) ==
    IF \E i \in 1..26 : UpperChars[i] = c
    THEN LowerChars[CHOOSE i \in 1..26 : UpperChars[i] = c]
    ELSE c

UpperChar(c) ==
    IF \E i \in 1..26 : LowerChars[i] = c
    THEN UpperChars[CHOOSE i \in 1..26 : LowerChars[i] = c]
    ELSE c

StrLower(s) == [i \in 1..Len(s) |-> LowerChar(s[i])]
StrUpper(s) == [i \in 1..Len(s) |-> UpperChar(s[i])]

IsDigit(c) == \E i \in 1..10 : DigitChars[i] = c
DigitVal(c) == (CHOOSE i \in 1..10 : DigitChars[i] = c) - 1
IsSpace(c) == c = " "
IsDelim(c) == c \in {",", ";", " "}

RECURSIVE LStrip(_)
LStrip(s) == IF s # <<>> /\ IsSpace(Head(s)) THEN LStrip(Tail(s)) ELSE s

RECURSIVE RStrip(_)
RStrip(s) ==
    IF s # <<>> /\ IsSpace(s[Len(s)]) THEN RStrip(SubSeq(s, 1, Len(s) - 1)) ELSE s

StrStrip(s) == RStrip(LStrip(s))

\* re.split(r"[,\s;]+", s): the pieces between maximal delimiter runs,
\* empty pieces at the two ends included.
RECURSIVE ReSplitFrom(_, _, _, _)
ReSplitFrom(s, i, cur, out) ==
    IF i > Len(s) THEN Append(out, cur)
    ELSE IF IsDelim(s[i])
         THEN IF i < Len(s) /\ IsDelim(s[i + 1])
              THEN ReSplitFrom(s, i + 1, cur, out)
              ELSE ReSplitFrom(s, i + 1, <<>>, Append(out, cur))
         ELSE ReSplitFrom(s, i + 1, Append(cur, s[i]), out)

ReSplit(s) == ReSplitFrom(s, 1, <<>>, <<>>)

SelectNonEmpty(ps) == SelectSeq(ps, LAMBDA p : p # <<>>)

\* Decimal text of an integer (Python str(int)).
RECURSIVE NatDigits(_)
NatDigits(n) ==
    IF n < 10 THEN <<DigitChars[n + 1]>>
    ELSE Append(NatDigits(n \div 10), DigitChars[(n % 10) + 1])

RECURSIVE NegDigits(_)
NegDigits(x) ==
    LET dg == (10 - (x % 10)) % 10
        rest == (x + dg) \div 10
    IN  IF rest = 0 THEN <<DigitChars[dg + 1]>>
        ELSE Append(NegDigits(rest), DigitChars[dg + 1])

IntToText(x) == IF x >= 0 THEN NatDigits(x) ELSE <<"-">> \o NegDigits(x)

\* ------------------------------------------------------------------------
\* Numbers
\* ------------------------------------------------------------------------
Rat(n, d) == [n |-> n, d |-> d]

RECURSIVE Pow(_, _)
Pow(b, k) == IF k = 0 THEN 1 ELSE b * Pow(b, k - 1)

\* Python round() of n/d (d > 0): nearest integer, ties to even.
RoundFrom(fl, r, d) ==
    IF 2 * r < d THEN fl
    ELSE IF 2 * r > d THEN fl + 1
    ELSE IF fl % 2 = 0 THEN fl ELSE fl + 1

RoundHalfEven(q) == RoundFrom(q.n \div q.d, q.n % q.d, q.d)

\* float(token): [sign] digits [. digits] | [sign] . digits ; anything else
\* over the characters drawn here is a ValueError.
RECURSIVE AccDigits(_, _, _)
AccDigits(s, sign, acc) ==
    IF s = <<>> THEN acc
    ELSE AccDigits(Tail(s), sign, acc * 10 + sign * DigitVal(Head(s)))

AllDigits(s) == \A i \in 1..Len(s) : IsDigit(s[i])

\* The sign a numeric text t starts with, and t without it.
SignOf(t) == IF t # <<>> /\ Head(t) = "-" THEN -1 ELSE 1

Unsigned(t) == IF t # <<>> /\ Head(t) \in {"-", "+"} THEN Tail(t) ELSE t

\* The digits before and after the point of body (dots: where its points are).
IntPart(body, dots) ==
    IF dots = {} THEN body ELSE SubSeq(body, 1, (CHOOSE i \in dots : TRUE) - 1)

FracPart(body, dots) ==
    IF dots = {} THEN <<>>
    ELSE SubSeq(body, (CHOOSE i \in dots : TRUE) + 1, Len(body))

FloatOfDigits(token, sign, points, ip, fp) ==
    IF points <= 1 /\ AllDigits(ip) /\ AllDigits(fp) /\ Len(ip) + Len(fp) >= 1
    THEN [ok |-> TRUE, v |-> Rat(AccDigits(ip \o fp, sign, 0), Pow(10, Len(fp)))]
    ELSE [ok |-> FALSE, exc |-> <<"ValueError", token>>]

FloatOfBody(token, sign, body, dots) ==
    FloatOfDigits(token, sign, Cardinality(dots), IntPart(body, dots),
                  FracPart(body, dots))

FloatOfSigned(token, sign, body) ==
    FloatOfBody(token, sign, body, {i \in 1..Len(body) : body[i] = "."})

ParseFloat(token) ==
    FloatOfSigned(token, SignOf(StrStrip(token)), Unsigned(StrStrip(token)))

\* ------------------------------------------------------------------------
\* Binary arithmetic of Python floats (IEEE-754 doubles)
\* ------------------------------------------------------------------------
\* A natural number as its bits, most significant first (<<>> is 0).
RECURSIVE BitsOf(_)
BitsOf(n) == IF n = 0 THEN <<>> ELSE Append(BitsOf(n \div 2), n % 2)

\* The bits of |v| for a 32-bit integer v.
BitsOfMag(v) ==
    IF v >= 0 THEN BitsOf(v)
    ELSE IF v = -2147483647 - 1 THEN <<1>> \o [i \in 1..31 |-> 0]
    ELSE BitsOf(-v)

RECURSIVE NatOfBits(_)
NatOfBits(b) ==
    IF b = <<>> THEN 0 ELSE 2 * NatOfBits(SubSeq(b, 1, Len(b) - 1)) + b[Len(b)]

RECURSIVE Trim(_)
Trim(b) == IF b # <<>> /\ b[1] = 0 THEN Trim(Tail(b)) ELSE b

Zeros(k) == [i \in 1..k |-> 0]

Pad(b, len) == Zeros(len - Len(b)) \o b

\* Naturals below 2^108 as four words of 27 bits, the most significant first.
Word == Pow(2, 27)

QuadOfBits(b) ==
    [w \in 1..4 |-> NatOfBits(SubSeq(Pad(b, 108), 27 * (w - 1) + 1, 27 * w))]

BitsOfQuad(x) ==
    Trim([i \in 1..108 |->
            (x[((i - 1) \div 27) + 1] \div Pow(2, 26 - ((i - 1) % 27))) % 2])

\* x + y + c, x - y (x >= y) and x < y
QAdd(x, y, c) ==
    LET s4 == x[4] + y[4] + c
        s3 == x[3] + y[3] + (s4 \div Word)
        s2 == x[2] + y[2] + (s3 \div Word)
        s1 == x[1] + y[1] + (s2 \div Word)
    IN  <<s1 % Word, s2 % Word, s3 % Word, s4 % Word>>

QSub(x, y) ==
    LET d4 == x[4] - y[4]
        d3 == x[3] - y[3] - (IF d4 < 0 THEN 1 ELSE 0)
        d2 == x[2] - y[2] - (IF d3 < 0 THEN 1 ELSE 0)
        d1 == x[1] - y[1] - (IF d2 < 0 THEN 1 ELSE 0)
    IN  <<d1 % Word, d2 % Word, d3 % Word, d4 % Word>>

QLess(x, y) ==
    \E i \in 1..4 : x[i] < y[i] /\ \A j \in 1..(i - 1) : x[j] = y[j]

\* a * b by shift and add over the bits of b, eight bits at a time; st is
\* the next bit to take and the sum so far.
MulBit(a, b, st) ==
    [i |-> st.i + 1,
     acc |-> IF b[st.i] = 1 THEN QAdd(QAdd(st.acc, st.acc, 0), a, 0)
             ELSE QAdd(st.acc, st.acc, 0)]

RECURSIVE MulRun(_, _, _, _)
MulRun(a, b, st, k) ==
    IF k = 0 \/ st.i > Len(b) THEN st ELSE MulRun(a, b, MulBit(a, b, st), k - 1)

RECURSIVE MulFrom(_, _, _)
MulFrom(a, b, st) ==
    IF st.i > Len(b) THEN st.acc ELSE MulFrom(a, b, MulRun(a, b, st, 8))

BitMul(a, b) ==
    BitsOfQuad(MulFrom(QuadOfBits(a), b, [i |-> 1, acc |-> <<0, 0, 0, 0>>]))

\* floor(a / b) by long division over the bits of a (b below 2^54), and
\* whether the division is exact; st is the next bit to take, the remainder
\* and the quotient so far.
DivSub(b, i, rem, q) ==
    IF QLess(rem, b) THEN [i |-> i + 1, rem |-> rem, q |-> Append(q, 0)]
    ELSE [i |-> i + 1, rem |-> QSub(rem, b), q |-> Append(q, 1)]

DivBit(a, b, st) == DivSub(b, st.i, QAdd(st.rem, st.rem, a[st.i]), st.q)

RECURSIVE DivRun(_, _, _, _)
DivRun(a, b, st, k) ==
    IF k = 0 \/ st.i > Len(a) THEN st ELSE DivRun(a, b, DivBit(a, b, st), k - 1)

RECURSIVE DivFrom(_, _, _)
DivFrom(a, b, st) ==
    IF st.i > Len(a) THEN [q |-> Trim(st.q), exact |-> st.rem = <<0, 0, 0, 0>>]
    ELSE DivFrom(a, b, DivRun(a, b, st, 8))

BitDiv(a, b) ==
    DivFrom(a, QuadOfBits(b), [i |-> 1, rem |-> <<0, 0, 0, 0>>, q |-> <<>>])

\* x (no leading zeros, then possibly a nonzero tail: sticky) rounded to p
\* significant bits, ties to even: the p bits m and the power of two they
\* are to be multiplied by.
RoundedUp(kept, p, shift) ==
    IF Len(kept) > p THEN [m |-> SubSeq(kept, 1, p), shift |-> shift + 1]
    ELSE [m |-> kept, shift |-> shift]

RoundBits(x, p, sticky) ==
    IF Len(x) <= p THEN [m |-> x \o Zeros(p - Len(x)), shift |-> Len(x) - p]
    ELSE IF /\ x[p + 1] = 1
            /\ \/ x[p] = 1
               \/ sticky
               \/ \E i \in (p + 2)..Len(x) : x[i] = 1
    THEN RoundedUp(BitsOfQuad(QAdd(QuadOfBits(SubSeq(x, 1, p)), <<0, 0, 0, 0>>, 1)),
                   p, Len(x) - p)
    ELSE [m |-> SubSeq(x, 1, p), shift |-> Len(x) - p]

\* A double: (-1)^neg * m * 2^e with m of 53 bits, or zero (m = <<>>).
Dbl(neg, m, e) == [neg |-> neg, m |-> m, e |-> e]

DblOfRounded(neg, r, e) == Dbl(neg, r.m, e + r.shift)

\* The double nearest to x * 2^e (sticky: x is followed by a nonzero tail).
DblOfBits(neg, x, e, sticky) ==
    IF x = <<>> THEN Dbl(neg, <<>>, 0)
    ELSE DblOfRounded(neg, RoundBits(x, 53, sticky), e)

\* float(v) of an integer v
DblOfInt(v) == DblOfBits(v < 0, BitsOfMag(v), 0, FALSE)

\* The double nearest to n/d (d > 0): 56 quotient bits or more, then rounded.
DblOfQuotient(neg, div, e) == DblOfBits(neg, div.q, e, ~div.exact)

DblOfFraction(neg, a, b) ==
    DblOfQuotient(neg, BitDiv(a \o Zeros(56 + Len(b)), b), -(56 + Len(b)))

DblOfRat(q) == DblOfFraction(q.n < 0, BitsOfMag(q.n), BitsOf(q.d))

\* x * y and x / y (y # 0), correctly rounded
DblMul(x, y) == DblOfBits(x.neg # y.neg, BitMul(x.m, y.m), x.e + y.e, FALSE)

DblDiv(x, y) ==
    IF x.m = <<>> THEN Dbl(x.neg # y.neg, <<>>, 0)
    ELSE DblOfQuotient(x.neg # y.neg, BitDiv(x.m \o Zeros(56), y.m), x.e - y.e - 56)

\* int(round(x)): k bits of x.m stand before the binary point.
MagRounded(r, k) == NatOfBits(r.m \o Zeros(r.shift - (53 - k)))

MagRound(m, k) ==
    IF k < 0 THEN 0
    ELSE IF k = 0 THEN (IF \E i \in 2..53 : m[i] = 1 THEN 1 ELSE 0)
    ELSE IF k >= 53 THEN NatOfBits(m \o Zeros(k - 53))
    ELSE MagRounded(RoundBits(m, k, FALSE), k)

Signed(neg, mag) == IF neg THEN -mag ELSE mag

DblRound(x) == IF x.m = <<>> THEN 0 ELSE Signed(x.neg, MagRound(x.m, 53 + x.e))

\* ------------------------------------------------------------------------
\* Python values
\* ------------------------------------------------------------------------
NoneVal == [none |-> TRUE]
PyInt(i) == [int |-> i]
PyFloat(q) == [flt |-> q]
PyDouble(x) == [dbl |-> x]
PyF32(bytes) == [f32 |-> bytes]
PyF32Times(bytes, scale) == [f32 |-> bytes, times |-> scale]
PyBool(b) == [bool |-> b]
PyList(items) == [list |-> items]
PyText(s) == [text |-> s]

\* ------------------------------------------------------------------------
\* Endianness (word/byte order)
\* ------------------------------------------------------------------------
_reg_from_bytes(b0, b1) == ((b0 % 256) * 256) + (b1 % 256)

_bytes_from_reg(reg) == <<(reg \div 256) % 256, reg % 256>>

\* (order or "ABCD").upper()
OrderCode(order) == StrUpper(IF order = <<>> THEN <<"A","B","C","D">> ELSE order)

\* struct.pack(">i", v): big-endian two's complement bytes A B C D.
BytesOfNat(m) ==
    <<(m \div 16777216) % 256, (m \div 65536) % 256, (m \div 256) % 256, m % 256>>

I32Bytes(v) ==
    IF v >= 0 THEN BytesOfNat(v)
    ELSE [i \in 1..4 |-> 255 - BytesOfNat(-(v + 1))[i]]

\* struct.unpack(">i", bytes([A,B,C,D]))
I32FromBytes(b) ==
    IF b[1] < 128
    THEN ((b[1] * 256 + b[2]) * 256 + b[3]) * 256 + b[4]
    ELSE -((((255 - b[1]) * 256 + (255 - b[2])) * 256 + (255 - b[3])) * 256
           + (255 - b[4])) - 1

RECURSIVE Log2Floor(_)
Log2Floor(m) == IF m < 2 THEN 0 ELSE 1 + Log2Floor(m \div 2)

RECURSIVE NegExp(_, _, _)
NegExp(a, d, k) == IF a * Pow(2, k) >= d THEN k ELSE NegExp(a, d, k + 1)

\* struct.pack(">f", q): IEEE-754 single of the rational q, round to nearest
\* even (normal range only).
\* a/d = 1.f * 2^e0: the exponent, the mantissa rounded to 24 bits, and the
\* bytes of sign, biased exponent and fraction.
F32Exponent(a, d) == IF a >= d THEN Log2Floor(a \div d) ELSE -NegExp(a, d, 1)

F32Mantissa(a, d, e0) ==
    IF e0 <= 23
    THEN RoundHalfEven(Rat(a * Pow(2, 23 - e0), d))
    ELSE RoundHalfEven(Rat(a, d * Pow(2, e0 - 23)))

F32Fields(sgn, ex, frac) ==
    <<sgn * 128 + (ex \div 2), (ex % 2) * 128 + (frac \div 65536),
      (frac \div 256) % 256, frac % 256>>

F32Normal(sgn, e0, m0) ==
    F32Fields(sgn, (IF m0 = 16777216 THEN e0 + 1 ELSE e0) + 127,
              IF m0 = 16777216 THEN 0 ELSE m0 - 8388608)

F32Rounded(sgn, a, d, e0) == F32Normal(sgn, e0, F32Mantissa(a, d, e0))

F32Magnitude(sgn, a, d) == F32Rounded(sgn, a, d, F32Exponent(a, d))

\* The same of a double: its 53 bits rounded to 24.
F32OfRounded(sgn, r, e) ==
    F32Fields(sgn, e + r.shift + 23 + 127, NatOfBits(r.m) - 8388608)

F32OfDbl(x) ==
    IF x.m = <<>> THEN <<IF x.neg THEN 128 ELSE 0, 0, 0, 0>>
    ELSE F32OfRounded(IF x.neg THEN 1 ELSE 0, RoundBits(x.m, 24, FALSE), x.e)

F32Bytes(q) ==
    IF "m" \in DOMAIN q THEN F32OfDbl(q)
    ELSE IF q.n = 0 THEN <<0, 0, 0, 0>>
    ELSE F32Magnitude(IF q.n < 0 THEN 1 ELSE 0, IF q.n < 0 THEN -q.n ELSE q.n, q.d)

ABCD == <<"A","B","C","D">>
CDAB == <<"C","D","A","B">>
BADC == <<"B","A","D","C">>
DCBA == <<"D","C","B","A">>

\* The if-chain of pack_i32_to_regs on the bytes A, B, C, D and the order o.
I32RegsInOrder(A, B, C, D, o) ==
    IF o = ABCD THEN <<_reg_from_bytes(A, B), _reg_from_bytes(C, D)>>
    ELSE IF o = CDAB THEN <<_reg_from_bytes(C, D), _reg_from_bytes(A, B)>>
    ELSE IF o = BADC THEN <<_reg_from_bytes(B, A), _reg_from_bytes(D, C)>>
    ELSE IF o = DCBA THEN <<_reg_from_bytes(D, C), _reg_from_bytes(B, A)>>
    ELSE <<_reg_from_bytes(A, B), _reg_from_bytes(C, D)>>

I32RegsOfBytes(abcd, o) == I32RegsInOrder(abcd[1], abcd[2], abcd[3], abcd[4], o)

pack_i32_to_regs(value, order) == I32RegsOfBytes(I32Bytes(value), OrderCode(order))

\* The if-chain of pack_f32_to_regs on the bytes A, B, C, D and the order o.
F32RegsInOrder(A, B, C, D, o) ==
    IF o = ABCD THEN <<_reg_from_bytes(A, B), _reg_from_bytes(C, D)>>
    ELSE IF o = CDAB THEN <<_reg_from_bytes(C, D), _reg_from_bytes(A, B)>>
    ELSE IF o = BADC THEN <<_reg_from_bytes(B, A), _reg_from_bytes(D, C)>>
    ELSE IF o = DCBA THEN <<_reg_from_bytes(D, C), _reg_from_bytes(B, A)>>
    ELSE <<_reg_from_bytes(A, B), _reg_from_bytes(C, D)>>

F32RegsOfBytes(abcd, o) == F32RegsInOrder(abcd[1], abcd[2], abcd[3], abcd[4], o)

\* An encoder that compares the order code as written, without upper().
pack_f32_to_regs_CaseSensitive(value, order) ==
    F32RegsOfBytes(F32Bytes(value), IF order = <<>> THEN ABCD ELSE order)

pack_f32_to_regs(value, order) == F32RegsOfBytes(F32Bytes(value), OrderCode(order))

\* A decoder whose BADC case swaps the words as well.
I32BytesInOrder_BadcAsDcba(a, b, o) ==
    IF o = ABCD THEN <<a[1], a[2], b[1], b[2]>>
    ELSE IF o = CDAB THEN <<b[1], b[2], a[1], a[2]>>
    ELSE IF o = BADC THEN <<b[2], b[1], a[2], a[1]>>
    ELSE IF o = DCBA THEN <<b[2], b[1], a[2], a[1]>>
    ELSE <<a[1], a[2], b[1], b[2]>>

\* The if-chain of unpack_i32_from_regs on the byte pairs a, b of the two
\* registers and the order o: the bytes A B C D it hands to struct.unpack.
I32BytesInOrder(a, b, o) ==
    IF o = ABCD THEN <<a[1], a[2], b[1], b[2]>>
    ELSE IF o = CDAB THEN <<b[1], b[2], a[1], a[2]>>
    ELSE IF o = BADC THEN <<a[2], a[1], b[2], b[1]>>
    ELSE IF o = DCBA THEN <<b[2], b[1], a[2], a[1]>>
    ELSE <<a[1], a[2], b[1], b[2]>>

\* The canonical bytes A B C D that unpack_i32_from_regs rebuilds.
I32BytesFromRegs(regs, order) ==
    I32BytesInOrder(_bytes_from_reg(regs[1]), _bytes_from_reg(regs[2]),
                    OrderCode(order))

unpack_i32_from_regs(regs, order) ==
    IF Len(regs) < 2 THEN NoneVal
    ELSE PyInt(I32FromBytes(I32BytesFromRegs(regs, order)))

\* The canonical bytes A B C D that unpack_f32_from_regs rebuilds.
F32BytesInOrder(a, b, o) ==
    IF o = ABCD THEN <<a[1], a[2], b[1], b[2]>>
    ELSE IF o = CDAB THEN <<b[1], b[2], a[1], a[2]>>
    ELSE IF o = BADC THEN <<a[2], a[1], b[2], b[1]>>
    ELSE IF o = DCBA THEN <<b[2], b[1], a[2], a[1]>>
    ELSE <<a[1], a[2], b[1], b[2]>>

F32BytesFromRegs(regs, order) ==
    F32BytesInOrder(_bytes_from_reg(regs[1]), _bytes_from_reg(regs[2]),
                    OrderCode(order))

unpack_f32_from_regs(regs, order) ==
    IF Len(regs) < 2 THEN NoneVal
    ELSE PyF32(F32BytesFromRegs(regs, order))

\* ------------------------------------------------------------------------
\* Encode / decode for the portal
\* ------------------------------------------------------------------------
TrueWords == {<<"t","r","u","e">>, <<"o","n">>, <<"y","e","s">>}
FalseWords == {<<"f","a","l","s","e">>, <<"o","f","f">>, <<"n","o">>}

\* A conversion that takes a token float() rejects for 0.
NumOfWord_ZeroOnFault(token, t) ==
    IF t \in TrueWords THEN [ok |-> TRUE, v |-> Rat(1, 1)]
    ELSE IF t \in FalseWords THEN [ok |-> TRUE, v |-> Rat(0, 1)]
    ELSE IF ParseFloat(token).ok THEN ParseFloat(token)
    ELSE [ok |-> TRUE, v |-> Rat(0, 1)]

NumOfWord(token, t) ==
    IF t \in TrueWords THEN [ok |-> TRUE, v |-> Rat(1, 1)]
    ELSE IF t \in FalseWords THEN [ok |-> TRUE, v |-> Rat(0, 1)]
    ELSE ParseFloat(token)

_to_num(token) == NumOfWord(token, StrLower(StrStrip(token)))

\* scale not in (None, 0, 1) and not math.isclose(scale, 1.0); the scales
\* drawn are rationals with small denominators, for which isclose(scale, 1.0)
\* is equality with 1.
\* A test that takes 0 for a scale like any other.
ScaleApplies_ZeroScales(scale) == scale # NoneVal /\ scale.n # scale.d

ScaleApplies(scale) == scale # NoneVal /\ scale.n # 0 /\ scale.n # scale.d

\* v / scale of Python floats: the quotient in floating point, or
\* ZeroDivisionError.
FloatDiv(v, scale) ==
    IF scale.n = 0 THEN [ok |-> FALSE, exc |-> <<"ZeroDivisionError">>]
    ELSE [ok |-> TRUE, v |-> DblDiv(DblOfRat(v), DblOfRat(scale))]

\* A write scaling that multiplies by the scale.
_apply_scale_write_Multiplies(v, scale) ==
    IF ScaleApplies(scale)
    THEN [ok |-> TRUE, v |-> DblMul(DblOfRat(v), DblOfRat(scale))]
    ELSE [ok |-> TRUE, v |-> v]

\* v unchanged where no scale applies.
_apply_scale_write(v, scale) ==
    IF ScaleApplies(scale) THEN FloatDiv(v, scale) ELSE [ok |-> TRUE, v |-> v]

\* v is a Python value: the int or float32 just decoded. An int times the
\* scale is the product in floating point.
_apply_scale_read(v, scale) ==
    IF ~ScaleApplies(scale) THEN v
    ELSE IF "int" \in DOMAIN v
    THEN PyDouble(DblMul(DblOfInt(v.int), DblOfRat(scale)))
    ELSE PyF32Times(v.f32, scale)

DatatypeCode(datatype) ==
    StrLower(IF datatype = <<>> THEN <<"i","n","t","1","6">> ELSE datatype)

INT16 == <<"i","n","t","1","6">>
UINT16 == <<"u","i","n","t","1","6">>
INT32 == <<"i","n","t","3","2">>
FLOAT32 == <<"f","l","o","a","t","3","2">>

\* int(round(sv)) of a scaled value: a quotient in floating point, or the
\* number of the token itself.
IntRound(sv) == IF "m" \in DOMAIN sv THEN DblRound(sv) ELSE RoundHalfEven(sv)

\* An encoder that clamps an int16 to -32768..32767 instead of wrapping it.
ScaledRegisters_Clamped(sv, dt, endianness) ==
    IF dt = INT16
    THEN <<(IF IntRound(sv) > 32767 THEN 32767
            ELSE IF IntRound(sv) < -32768 THEN -32768 ELSE IntRound(sv)) % 65536>>
    ELSE IF dt = UINT16 THEN <<IntRound(sv) % 65536>>
    ELSE IF dt = INT32 THEN pack_i32_to_regs(IntRound(sv), endianness)
    ELSE IF dt = FLOAT32 THEN pack_f32_to_regs(sv, endianness)
    ELSE <<IntRound(sv) % 65536>>

\* The registers the scaled value sv of one token contributes.
ScaledRegisters(sv, dt, endianness) ==
    IF dt = INT16 \/ dt = UINT16 THEN <<IntRound(sv) % 65536>>
    ELSE IF dt = INT32 THEN pack_i32_to_regs(IntRound(sv), endianness)
    ELSE IF dt = FLOAT32 THEN pack_f32_to_regs(sv, endianness)
    ELSE <<IntRound(sv) % 65536>>

NumScaled(sv, dt, endianness) ==
    IF ~sv.ok THEN sv
    ELSE [ok |-> TRUE, regs |-> ScaledRegisters(sv.v, dt, endianness)]

NumRegisters(num, dt, endianness, scale) ==
    IF ~num.ok THEN num
    ELSE NumScaled(_apply_scale_write(num.v, scale), dt, endianness)

\* The registers one token contributes, or the exception it raises.
TokenRegisters(p, dt, endianness, scale) ==
    NumRegisters(_to_num(p), dt, endianness, scale)

RECURSIVE BuildFrom(_, _, _, _, _)
RECURSIVE BuildNext(_, _, _, _, _, _)
BuildNext(g, parts, dt, endianness, scale, out) ==
    IF ~g.ok THEN g
    ELSE BuildFrom(Tail(parts), dt, endianness, scale, out \o g.regs)

BuildFrom(parts, dt, endianness, scale, out) ==
    IF parts = <<>> THEN [ok |-> TRUE, regs |-> out]
    ELSE BuildNext(TokenRegisters(Head(parts), dt, endianness, scale),
                   parts, dt, endianness, scale, out)

\* A token list that stays empty for an empty text.
ValueParts_NoDefault(parts) == parts

\* parts = [p for p in re.split(...) if p != ""]; if not parts: parts = ["0"]
ValueParts(parts) == IF parts = <<>> THEN << <<"0">> >> ELSE parts

build_registers(value_text, datatype, endianness, scale) ==
    BuildFrom(ValueParts(SelectNonEmpty(ReSplit(StrStrip(value_text)))),
              DatatypeCode(datatype), endianness, scale, <<>>)

\* The values decoded from the complete register pairs, in order.
RECURSIVE DecodePairs32(_, _, _, _)
UnpackPair(chunk, isFloat, endianness) ==
    IF isFloat THEN unpack_f32_from_regs(chunk, endianness)
    ELSE unpack_i32_from_regs(chunk, endianness)

DecodePairs32(registers, isFloat, endianness, scale) ==
    IF Len(registers) < 2 THEN <<>>
    ELSE <<_apply_scale_read(UnpackPair(SubSeq(registers, 1, 2), isFloat, endianness),
                             scale)>>
         \o DecodePairs32(SubSeq(registers, 3, Len(registers)),
                          isFloat, endianness, scale)

\* vals of decode_registers for the datatype dt
DecodedValues(registers, dt, endianness, scale) ==
    IF dt = INT16
    THEN [i \in 1..Len(registers) |->
            _apply_scale_read(PyInt(IF registers[i] < 32768 THEN registers[i]
                                    ELSE registers[i] - 65536), scale)]
    ELSE IF dt = UINT16
    THEN [i \in 1..Len(registers) |->
            _apply_scale_read(PyInt(registers[i] % 65536), scale)]
    ELSE IF dt = INT32 THEN DecodePairs32(registers, FALSE, endianness, scale)
    ELSE IF dt = FLOAT32 THEN DecodePairs32(registers, TRUE, endianness, scale)
    ELSE [i \in 1..Len(registers) |->
            _apply_scale_read(PyInt(registers[i] % 65536), scale)]

\* return vals[0] if len(vals) == 1 else vals
OneOrList(vals) == IF Len(vals) = 1 THEN vals[1] ELSE PyList(vals)

\* A decoder that answers an empty register list with the value 0.
decode_registers_ZeroWhenEmpty(registers, datatype, endianness, scale) ==
    IF registers = <<>> THEN PyInt(0)
    ELSE OneOrList(DecodedValues(registers, DatatypeCode(datatype), endianness, scale))

decode_registers(registers, datatype, endianness, scale) ==
    IF registers = <<>> THEN NoneVal
    ELSE OneOrList(DecodedValues(registers, DatatypeCode(datatype), endianness, scale))

\* ------------------------------------------------------------------------
\* Host:port parsing
\* ------------------------------------------------------------------------
DefaultPort == 502
DefaultHost == <<"1","2","7",".","0",".","0",".","1">>

\* (?::(?P<port>\d{1,5}))? followed by the end of the text
PortSuffixOk(rest) ==
    \/ rest = <<>>
    \/ /\ Head(rest) = ":"
       /\ Len(rest) \in 2..6
       /\ AllDigits(Tail(rest))

PortOf(rest, default_port) ==
    IF rest = <<>> THEN default_port ELSE AccDigits(Tail(rest), 1, 0)

\* _HOSTPORT_RE.match on t, the text without its outer whitespace: the
\* bracketed alternative first, then the colon-free host alternative.
FirstOf(S, none) == IF S = {} THEN none ELSE CHOOSE j \in S : \A k \in S : j <= k

\* close: where the first "]" of t is (0: nowhere); stop: where the first
\* colon or space of t is (Len(t) + 1: nowhere).
HostPortAt(t, close, stop, default_port) ==
    IF /\ t # <<>> /\ Head(t) = "["
       /\ close > 2
       /\ PortSuffixOk(SubSeq(t, close + 1, Len(t)))
    THEN [ok |-> TRUE,
          host |-> StrStrip(SubSeq(t, 2, close - 1)),
          port |-> PortOf(SubSeq(t, close + 1, Len(t)), default_port)]
    ELSE IF stop > 1 /\ PortSuffixOk(SubSeq(t, stop, Len(t)))
    THEN [ok |-> TRUE,
          host |-> SubSeq(t, 1, stop - 1),
          port |-> PortOf(SubSeq(t, stop, Len(t)), default_port)]
    ELSE [ok |-> FALSE]

HostPortMatch(t, default_port) ==
    HostPortAt(t, FirstOf({j \in 1..Len(t) : t[j] = "]"}, 0),
               FirstOf({j \in 1..Len(t) : t[j] = ":" \/ IsSpace(t[j])}, Len(t) + 1),
               default_port)

\* A parser that gives up the text when the pattern does not match.
HostPortOf_DropsUnmatched(s, default_port, m) ==
    IF ~m.ok THEN [host |-> <<>>, port |-> default_port]
    ELSE [host |-> m.host, port |-> m.port]

\* if not m: return s, default_port / host = m.group(...); port = ...
HostPortOf(s, default_port, m) ==
    IF ~m.ok THEN [host |-> s, port |-> default_port]
    ELSE [host |-> m.host, port |-> m.port]

parse_host_port(ip_text, default_port) ==
    IF ip_text = <<>> THEN [host |-> <<>>, port |-> default_port]
    ELSE HostPortOf(StrStrip(ip_text), default_port,
                    HostPortMatch(StrStrip(ip_text), default_port))

\* ------------------------------------------------------------------------
\* Row fields
\* ------------------------------------------------------------------------
\* bool(x) is False: None, 0, 0.0, ""
Falsy(x) ==
    \/ x = NoneVal
    \/ "int" \in DOMAIN x /\ x.int = 0
    \/ "flt" \in DOMAIN x /\ x.flt.n = 0
    \/ "text" \in DOMAIN x /\ x.text = <<>>

\* int(text): [sign] digits, outer whitespace ignored; else ValueError
IntOfBody(text, sign, body) ==
    IF body # <<>> /\ AllDigits(body)
    THEN [ok |-> TRUE, v |-> AccDigits(body, sign, 0)]
    ELSE [ok |-> FALSE, exc |-> <<"ValueError", text>>]

ParseInt(text) ==
    IntOfBody(text, SignOf(StrStrip(text)), Unsigned(StrStrip(text)))

\* int(x or default)
IntField(x, default) ==
    IF Falsy(x) THEN [ok |-> TRUE, v |-> default]
    ELSE IF "int" \in DOMAIN x THEN [ok |-> TRUE, v |-> x.int]
    ELSE IF "flt" \in DOMAIN x THEN [ok |-> TRUE, v |-> x.flt.n \div x.flt.d]
    ELSE ParseInt(x.text)

\* float(x or 1.0)
FloatField(x) ==
    IF Falsy(x) THEN [ok |-> TRUE, v |-> Rat(1, 1)]
    ELSE IF "int" \in DOMAIN x THEN [ok |-> TRUE, v |-> Rat(x.int, 1)]
    ELSE IF "flt" \in DOMAIN x THEN [ok |-> TRUE, v |-> x.flt]
    ELSE ParseFloat(x.text)

\* "" if value is None else str(value)
ValueText(x) ==
    IF x = NoneVal THEN <<>>
    ELSE IF "int" \in DOMAIN x THEN IntToText(x.int)
    ELSE x.text

\* str(function).strip().lower() on the function names drawn
FnNorm(f) ==
    CASE f = "READ_COILS" -> "read_coils"
      [] f = " write_coil " -> "write_coil"
      [] f = "Write Regs" -> "write regs"
      [] OTHER -> f

\* ------------------------------------------------------------------------
\* Core executor
\* ------------------------------------------------------------------------
ReadCoilsNames == {"read_coils", "read coil", "read_coil"}
WriteCoilNames == {"write_single", "write_single_coil", "write coil", "write_coil"}
WriteCoilsNames == {"write_multi", "write_multiple_coils", "write coils", "write_coils"}
ReadDiscreteNames == {"read_discrete", "read_discrete_inputs", "read di", "read_discrete_input"}
ReadHoldingNames == {"read_holding", "read_holding_registers", "read hr"}
WriteRegisterNames == {"write_single_register", "write_single_reg", "write single reg", "write_register"}
WriteRegistersNames == {"write_multi_registers", "write_multiple_registers", "write regs", "write_regs"}
ReadInputNames == {"read_input", "read_input_registers", "read ir"}

\* token in ("1", "true", "on", "yes")
CoilTruthy(text) == StrLower(StrStrip(text)) \in (TrueWords \cup {<<"1">>})

\* A slice that keeps the whole response.
Take_Whole(s, n) == s

\* s[:n]
Take(s, n) == SubSeq(s, 1, IF n < Len(s) THEN n ELSE Len(s))

\* One request on the transport: the primitive and its arguments.
Request(op, addr, arg, unit) == [op |-> op, addr |-> addr, arg |-> arg, unit |-> unit]

\* A message that names the default port instead of the parsed one.
ErrConnect_DefaultPort(host, port) == <<"connect failed", host, DefaultPort>>

ErrConnect(host, port) == <<"connect failed", host, port>>
ErrUnsupported(fn) == <<"unsupported function", fn>>
ErrException(exc) == <<"exception", exc[1], exc[2]>>
ErrTransport(op) == <<"transport error", op>>

\* An error that is recorded without ok being false.
Failed_StaysOk(err) == ("error" :> err) @@ ("ok" :> TRUE)

Failed(err) == ("error" :> err) @@ ("ok" :> FALSE)

\* What the transport answers to a request: env.reply is "ok", "error" (an
\* error response) or "raise" (the call raises); env.data is the payload of a
\* successful read.
TransportFault == <<"ModbusIOException", "no response">>

\* A read primitive (lines 264-271, 304-323, 358-367).
ReadBits(op, addr, count, unit, env) ==
    LET req == <<Request(op, addr, count, unit)>>
    IN  IF env.reply = "raise"
        THEN [result |-> Failed(ErrException(TransportFault)), reqs |-> req]
        ELSE IF env.reply = "error"
        THEN [result |-> Failed(ErrTransport(op)), reqs |-> req]
        ELSE LET bits == Take(env.data, count)
             IN  [result |-> ("value" :> (IF Len(bits) = 1 THEN PyBool(bits[1])
                                          ELSE PyList(bits)))
                             @@ ("ok" :> TRUE),
                  reqs |-> req]

ReadRegs(op, addr, count, unit, dtype, end, scale, env) ==
    LET req == <<Request(op, addr, count, unit)>>
    IN  IF env.reply = "raise"
        THEN [result |-> Failed(ErrException(TransportFault)), reqs |-> req]
        ELSE IF env.reply = "error"
        THEN [result |-> Failed(ErrTransport(op)), reqs |-> req]
        ELSE LET regs == Take(env.data, count)
             IN  [result |-> ("registers" :> regs)
                             @@ ("value" :> decode_registers(regs, dtype, end, scale))
                             @@ ("ok" :> TRUE),
                  reqs |-> req]

\* A write that goes to the transport whatever the dry flag.
WriteOut_IgnoresDry(op, addr, arg, unit, shown, dry, env) ==
    LET req == <<Request(op, addr, arg, unit)>>
    IN  IF env.reply = "raise"
        THEN [result |-> Failed(ErrException(TransportFault)), reqs |-> req]
        ELSE IF env.reply = "error"
        THEN [result |-> shown @@ Failed(ErrTransport(op)), reqs |-> req]
        ELSE [result |-> shown @@ ("ok" :> TRUE), reqs |-> req]

\* A write primitive already given its payload: shown is what the result
\* carries besides ok/error (lines 275-283, 293-301, 329-339, 345-355).
WriteOut(op, addr, arg, unit, shown, dry, env) ==
    IF dry THEN [result |-> shown @@ ("ok" :> TRUE), reqs |-> <<>>]
    ELSE LET req == <<Request(op, addr, arg, unit)>>
         IN  IF env.reply = "raise"
             THEN [result |-> Failed(ErrException(TransportFault)), reqs |-> req]
             ELSE IF env.reply = "error"
             THEN [result |-> shown @@ Failed(ErrTransport(op)), reqs |-> req]
             ELSE [result |-> shown @@ ("ok" :> TRUE), reqs |-> req]

\* A bit list that stays empty when the text holds no token.
BitsOrFalse_Empty(bits) == bits

\* bits = [...] or [False]
BitsOrFalse(bits) == IF bits = <<>> THEN <<FALSE>> ELSE bits

BitsOfParts(ps) == BitsOrFalse([i \in 1..Len(ps) |-> CoilTruthy(ps[i])])

CoilBits(value_text) == BitsOfParts(SelectNonEmpty(ReSplit(StrStrip(value_text))))

\* An unknown function name that is passed over in silence.
Unsupported_Silent(fn) == [result |-> "ok" :> TRUE, reqs |-> <<>>]

\* The final else of the dispatch (lines 369-370).
Unsupported(fn) == [result |-> Failed(ErrUnsupported(fn)), reqs |-> <<>>]

\* The try block of perform_row (lines 262-373).
\* The write branches, given what the value text was converted to.
WriteCoil(bit, addr, unit, dry, env) ==
    WriteOut("write_coil", addr, bit, unit, "value" :> PyBool(bit), dry, env)

WriteCoils(bits, addr, unit, dry, env) ==
    WriteOut("write_coils", addr, bits, unit, "value" :> PyList(bits), dry, env)

\* regs = build_registers(...) or [0]
RegsOrZero(regs) == IF regs = <<>> THEN <<0>> ELSE regs

\* A single-register write that reports every encoded register.
WriteRegisterRegs_All(regs, addr, unit, value_text, dry, env) ==
    WriteOut("write_register", addr, regs[1] % 65536, unit,
             ("registers" :> regs) @@ ("value" :> PyText(value_text)),
             dry, env)

WriteRegisterRegs(regs, addr, unit, value_text, dry, env) ==
    WriteOut("write_register", addr, regs[1] % 65536, unit,
             ("registers" :> Take(regs, 1)) @@ ("value" :> PyText(value_text)),
             dry, env)

WriteRegister(b, addr, unit, value_text, dry, env) ==
    IF ~b.ok THEN [result |-> Failed(ErrException(b.exc)), reqs |-> <<>>]
    ELSE WriteRegisterRegs(RegsOrZero(b.regs), addr, unit, value_text, dry, env)

WriteRegistersRegs(regs, addr, unit, value_text, dry, env) ==
    WriteOut("write_registers", addr, regs, unit,
             ("registers" :> regs) @@ ("value" :> PyText(value_text)), dry, env)

WriteRegisters(b, addr, unit, value_text, dry, env) ==
    IF ~b.ok THEN [result |-> Failed(ErrException(b.exc)), reqs |-> <<>>]
    ELSE WriteRegistersRegs(RegsOrZero(b.regs), addr, unit, value_text, dry, env)

Dispatch(fn, addr, count, unit, dtype, end, scale, value_text, dry, env) ==
    IF fn \in ReadCoilsNames THEN ReadBits("read_coils", addr, count, unit, env)
    ELSE IF fn \in WriteCoilNames
    THEN WriteCoil(CoilTruthy(value_text), addr, unit, dry, env)
    ELSE IF fn \in WriteCoilsNames
    THEN WriteCoils(CoilBits(value_text), addr, unit, dry, env)
    ELSE IF fn \in ReadDiscreteNames
    THEN ReadBits("read_discrete_inputs", addr, count, unit, env)
    ELSE IF fn \in ReadHoldingNames
    THEN ReadRegs("read_holding_registers", addr, count, unit, dtype, end, scale, env)
    ELSE IF fn \in WriteRegisterNames
    THEN WriteRegister(build_registers(value_text, dtype, end, scale),
                       addr, unit, value_text, dry, env)
    ELSE IF fn \in WriteRegistersNames
    THEN WriteRegisters(build_registers(value_text, dtype, end, scale),
                        addr, unit, value_text, dry, env)
    ELSE IF fn \in ReadInputNames
    THEN ReadRegs("read_input_registers", addr, count, unit, dtype, end, scale, env)
    ELSE Unsupported(fn)

Timeout == 3

NoResult == "ok" :> FALSE

\* perform_row(row, clients, timeout, dry): clients is the cache, a function
\* from key to handle; a handle is its number in order of creation (nHandles
\* exist so far).  env holds what the transport does during this call:
\* env.connect is "ok", "refused" (connect() returns False) or "raise".
ConnectFault == <<"OSError", "connect">>

\* A lookup that never finds the cached client.
CacheHandle_Fresh(clients, key, nHandles) == nHandles + 1

\* client = clients.get(key); a client made now is handle nHandles + 1
CacheHandle(clients, key, nHandles) ==
    IF key \in DOMAIN clients THEN clients[key] ELSE nHandles + 1

\* A client that is made but not stored.
CachePut_Lost(clients, key, handle) == clients

\* clients[key] = client
CachePut(clients, key, handle) == (key :> handle) @@ clients

\* host, port = parse_host_port(raw_ip or "127.0.0.1", default_port=502)
EndpointOf(raw_ip) ==
    parse_host_port(IF raw_ip = <<>> THEN DefaultHost ELSE raw_ip, DefaultPort)

RowEndpoint(row) == EndpointOf(StrStrip(row.ip))

\* key = (host, port, float(timeout))
KeyOf(hp) == <<hp.host, hp.port, Timeout>>

RowKey(row) == KeyOf(RowEndpoint(row))

\* The exception the conversions of lines 239-246 raise, <<>> if none.
FaultOf(unit, addr, cnt, scale) ==
    IF ~unit.ok THEN unit.exc
    ELSE IF ~addr.ok THEN addr.exc
    ELSE IF ~cnt.ok THEN cnt.exc
    ELSE IF ~scale.ok THEN scale.exc
    ELSE <<>>

RowFault(row) ==
    FaultOf(IntField(row.unit_id, 1), IntField(row.address, 0),
            IntField(row.count, 1), FloatField(row.scale))

\* An exception leaves perform_row before the cache is looked at.
Escapes(exc, clients) ==
    [raised |-> TRUE, exc |-> exc, result |-> NoResult, clients |-> clients,
     created |-> <<>>, connected |-> 0, reqs |-> <<>>]

\* The dispatch gave d: perform_row returns its result.
Returned(d, cache, made, handle) ==
    [raised |-> FALSE, exc |-> <<>>, result |-> d.result, clients |-> cache,
     created |-> made, connected |-> handle, reqs |-> d.reqs]

\* A dry run that is dispatched without connecting.
ConnectThenDispatch_DryFirst(row, dry, env, hp, handle, cache, made, unit, addr, count, scale) ==
    IF ~dry /\ env.connect = "raise"
    THEN [raised |-> TRUE, exc |-> ConnectFault, result |-> NoResult,
          clients |-> cache, created |-> made, connected |-> handle, reqs |-> <<>>]
    ELSE IF ~dry /\ env.connect = "refused"
    THEN [raised |-> FALSE, exc |-> <<>>,
          result |-> Failed(ErrConnect(hp.host, hp.port)),
          clients |-> cache, created |-> made, connected |-> handle, reqs |-> <<>>]
    ELSE Returned(Dispatch(FnNorm(row.function), addr, count, unit,
                           StrLower(row.datatype), row.endianness, scale,
                           ValueText(row.value), dry, env),
                  cache, made, IF dry THEN 0 ELSE handle)

\* if not client.connect(): return {...} (lines 258-260), then the try block.
\* cache is the cache after line 256, made the key of a client made now.
ConnectThenDispatch(row, dry, env, hp, handle, cache, made, unit, addr, count, scale) ==
    IF env.connect = "raise"
    THEN [raised |-> TRUE, exc |-> ConnectFault, result |-> NoResult,
          clients |-> cache, created |-> made, connected |-> handle, reqs |-> <<>>]
    ELSE IF env.connect = "refused"
    THEN [raised |-> FALSE, exc |-> <<>>,
          result |-> Failed(ErrConnect(hp.host, hp.port)),
          clients |-> cache, created |-> made, connected |-> handle, reqs |-> <<>>]
    ELSE Returned(Dispatch(FnNorm(row.function), addr, count, unit,
                           StrLower(row.datatype), row.endianness, scale,
                           ValueText(row.value), dry, env),
                  cache, made, handle)

\* client = clients.get(key) gave handle;
\* if client is None: client = ModbusTcpClient(...); clients[key] = client
WithClient(row, clients, nHandles, dry, env, hp, key, handle, unit, addr, count, scale) ==
    ConnectThenDispatch(row, dry, env, hp, handle,
                        IF handle > nHandles THEN CachePut(clients, key, handle)
                        ELSE clients,
                        IF handle > nHandles THEN <<key>> ELSE <<>>,
                        unit, addr, count, scale)

\* The row after the conversions of lines 236-250: count <= 0 becomes 1.
Normalized(row, clients, nHandles, dry, env, hp, unit, addr, cnt, scale) ==
    IF FaultOf(unit, addr, cnt, scale) # <<>>
    THEN Escapes(FaultOf(unit, addr, cnt, scale), clients)
    ELSE WithClient(row, clients, nHandles, dry, env, hp, KeyOf(hp),
                    CacheHandle(clients, KeyOf(hp), nHandles), unit.v, addr.v,
                    IF cnt.v <= 0 THEN 1 ELSE cnt.v, scale.v)

perform_row(row, clients, nHandles, dry, env) ==
    Normalized(row, clients, nHandles, dry, env, RowEndpoint(row),
               IntField(row.unit_id, 1), IntField(row.address, 0),
               IntField(row.count, 1), FloatField(row.scale))

\* ------------------------------------------------------------------------
\* State
\* ------------------------------------------------------------------------
VARIABLES
    rows,       \* the input rows of the batch
    dry,        \* the dry flag of the batch
    wire,       \* the payload the devices answer a successful read with
    pc,         \* "loop", "cleanup", "done" ("idle": no batch)
    idx,        \* the row the loop is at
    clients,    \* the connection cache: key -> handle
    handles,    \* every client created, in order: its key and its close() calls
    conns,      \* every connect() call, in order: row, handle and what it gave
    results,    \* the results appended (printed) so far
    log,        \* every request issued on the transport, in order
    escaped,    \* the exception that left the loop, <<>> if none
    closeQ,     \* list(clients.values()) still to close
    call,       \* the arguments of the codec call
    enc,        \* what build_registers returned
    dec,        \* what decode_registers returned
    cpc         \* "start", "encoded", "decoded" ("idle": no codec call)

bvars == <<rows, dry, wire, pc, idx, clients, handles, conns, results, log, escaped,
          closeQ>>
cvars == <<call, enc, dec, cpc>>
vars == <<rows, dry, wire, pc, idx, clients, handles, conns, results, log, escaped,
          closeQ, call, enc, dec, cpc>>

\* ------------------------------------------------------------------------
\* Inputs
\* ------------------------------------------------------------------------
Row(ip, function, address, count, datatype, scale, endianness, value) ==
    [ip |-> ip, unit_id |-> PyInt(1), function |-> function, address |-> address,
     count |-> count, datatype |-> datatype, scale |-> scale,
     endianness |-> endianness, value |-> value]

HostA == <<"h","1">>
HostAPort == <<"h","1",":","5","0","2">>
HostB == <<"[",":",":","1","]",":","1","5","0","2">>
BoolType == <<"b","o","o","l">>
One == PyFloat(Rat(1, 1))

\* The rows batches are made of: two endpoints (the first written in two
\* ways), a read, a write, an unknown function, a row whose address is not a
\* number and a register write whose second token is not a number.
BatchRows ==
    { Row(HostA, "read_holding", PyInt(0), PyInt(2), INT16, One, ABCD, PyText(<<>>)),
      Row(HostAPort, " write_coil ", PyInt(1), PyInt(1), BoolType, One, <<>>, PyText(<<"1">>)),
      Row(HostB, "frobnicate", PyInt(3), PyInt(1), INT16, One, ABCD, PyText(<<>>)),
      Row(HostA, "READ_COILS", PyText(<<"x">>), PyInt(1), BoolType, One, <<>>, PyText(<<>>)),
      Row(HostB, "Write Regs", PyInt(2), PyInt(1), INT16, One, ABCD,
          PyText(<<"7",","," ","x">>)) }

BatchWires == { [bits |-> <<TRUE, FALSE>>, regs |-> <<65535, 2, 3>>] }

\* The rows of one-row runs: every function group under several names, with
\* the value texts, datatypes and orders of the web form.
RowFunctions ==
    {"read_coils", "read coil", "write_single", "write_coil", "write_multi",
     "write coils", "read_discrete", "read di", "read_holding", "read hr",
     "write_single_register", "write_register", "write_multi_registers",
     "Write Regs", "read_input", "read ir", "frobnicate", ""}
RowValues ==
    {PyText(<<>>), PyText(<<"1">>), PyText(<<"o","n">>), PyText(<<"7",",","-","2">>),
     PyText(<<"1",";","0"," ","1">>), PyText(<<"x">>), NoneVal, PyInt(70000)}
RowTypes == {INT16, INT32, FLOAT32}
RowOrders == {ABCD, CDAB}
RowCounts == {PyInt(0), PyInt(2), PyText(<<"3">>)}

\* Register rows under the scales a row may carry: 0 as a number and as
\* text, a blank, none, and one that scales.
RowScales ==
    {PyInt(0), PyFloat(Rat(0, 1)), NoneVal, PyText(<<"0">>), PyText(<<>>),
     PyFloat(Rat(1, 2))}

ScaleRows ==
    { Row(HostA, f, PyInt(5), PyInt(2), t, sc, ABCD, v) :
        f \in {"read_holding", "read ir", "write_register", "write_multi_registers"},
        t \in RowTypes, sc \in RowScales,
        v \in {PyText(<<"7",",","-","2">>), PyText(<<"1">>)} }

\* Coil writes whose value text is delimiters only, or words in capitals.
CoilRows ==
    { Row(HostA, f, PyInt(5), PyInt(1), BoolType, One, <<>>, PyText(v)) :
        f \in {"write_multi", "write coils"},
        v \in { <<" ",","," ",";">>, <<"O","N",","," ","Y","e","s"," ","0">>,
                <<"T","R","U","E",";","o","f","f">> } }

\* The rows the web form builds from its coil and holding-register tables
\* (buildOps, web_portal.py lines 470-476 and 486-493): the function is the
\* value of the table's mode select (lines 194-198 and 221-226).
CoilsTableRows ==
    { Row(HostAPort, f, PyInt(0), PyInt(1), BoolType, One, <<>>,
          PyText(IF f = "read_coils" THEN <<>> ELSE <<"1">>)) :
        f \in {"read_coils", "write_single", "write_multi"} }

HoldingTableRows ==
    { Row(HostAPort, f, PyInt(0), IF t = INT16 THEN PyInt(1) ELSE PyInt(2), t, One,
          ABCD, PyText(IF f = "read_holding" THEN <<>> ELSE <<"7">>)) :
        f \in {"read_holding", "write_single", "write_multi"}, t \in RowTypes }

OneRows ==
    { Row(HostA, f, PyInt(5), c, t, One, o, v) :
        f \in RowFunctions, c \in RowCounts, t \in RowTypes, o \in RowOrders,
        v \in RowValues }
    \cup ScaleRows \cup CoilRows \cup CoilsTableRows \cup HoldingTableRows

RowWires ==
    { [bits |-> <<TRUE, FALSE>>, regs |-> <<65535, 2, 3>>],
      [bits |-> <<FALSE>>, regs |-> <<>>] }

SeqsUpTo(S, n) == UNION { [1..k -> S] : k \in 0..n }

\* The codec calls: the decimal text of an integer, or a decimal fraction.
Boundaries ==
    {-2147483647 - 1, -2147483647, -16909060, -65537, -65536, -32769, -32768,
     -32767, -256, -255, 255, 256, 32767, 32768, 65535, 65536, 16909060,
     305419896, 2147483647}
IntSamples == (-MaxSmall..MaxSmall) \cup Boundaries
Fractions == {<<"1",".","5">>, <<"0",".","1">>, <<"-","2",".","5">>, <<".","2","5">>}
CodecTexts == {IntToText(x) : x \in IntSamples} \cup Fractions
CodecTypes == {INT16, UINT16, INT32, FLOAT32}
CodecOrders ==
    {ABCD, BADC, CDAB, DCBA, <<"c","d","a","b">>, <<"D","c","b","A">>, <<>>,
     <<"A","B","D","C">>}
CodecScales == {Rat(1, 1)}

EncodeCall(text, datatype, endianness, scale) ==
    [op |-> "encode", text |-> text, regs |-> <<>>, datatype |-> datatype,
     endianness |-> endianness, scale |-> scale]

DecodeCall(regs, datatype, endianness, scale) ==
    [op |-> "decode", text |-> <<>>, regs |-> regs, datatype |-> datatype,
     endianness |-> endianness, scale |-> scale]

\* build_registers on one number in every datatype and order, scale 1.
NumberCalls ==
    { EncodeCall(t, dt, o, sc) :
        t \in CodecTexts, dt \in CodecTypes, o \in CodecOrders, sc \in CodecScales }
    \ { EncodeCall(IntToText(-2147483647 - 1), FLOAT32, o, sc) :
          o \in CodecOrders, sc \in CodecScales }

\* build_registers on value texts of several tokens, under the scales that
\* apply no scaling.
ListTexts ==
    { <<"1","0","0",",","1","0","1",",","1","0","2">>, <<>>, <<" ",","," ",";">>,
      <<"1",";","2"," ","3">>, <<"7",",",",","8">>, <<" ","5"," ">>,
      <<"o","n",",","O","F","F">>, <<"-","1"," ","6","5","5","3","6">>,
      <<"1",".","5",",","2",".","5">>, <<"7","0","0","0","0">>, <<"-","3","2","7","6","9">> }
RawType == <<"r","a","w">>
NoScales == {Rat(1, 1), Rat(0, 1), NoneVal}

ListCalls ==
    { EncodeCall(t, dt, o, sc) :
        t \in ListTexts, dt \in CodecTypes \cup {RawType, <<>>}, o \in {ABCD, CDAB},
        sc \in NoScales }

\* build_registers under a scale that applies: values that are and are not
\* whole multiples of the scale.
Scales == {Rat(1, 10), Rat(2, 1), Rat(1, 2), Rat(-1, 10)}
ScaledTexts ==
    { <<"2","5","0">>, <<"1",".","7">>, <<"0",".","3">>, <<"-","1",".","5">>,
      <<"6","5","5","3",".","5">>, <<"3">>, <<"0">>, <<"1","0","0",",","1","0","1">>,
      <<"0",".","2","5">> }

ScaledCalls ==
    { EncodeCall(t, dt, ABCD, sc) : t \in ScaledTexts, dt \in CodecTypes, sc \in Scales }

\* decode_registers on the register lists a device may answer with, in the
\* datatypes of the operation record and the scales of the form.
RegSamples == {0, 1, 5, 32768, 65535}
DecodeTypes == CodecTypes \cup {BoolType, RawType}
DecodeOrders == {ABCD, CDAB}

RegisterCalls ==
    { DecodeCall(g, dt, o, sc) :
        g \in SeqsUpTo(RegSamples, MaxRegs), dt \in DecodeTypes, o \in DecodeOrders,
        sc \in NoScales }

ScaledRegs == { <<2500>>, <<17>>, <<3>>, <<65535>>, <<7, 8>>, <<0, 32768>>, <<1, 2, 3>> }

ScaledRegisterCalls ==
    { DecodeCall(g, dt, o, sc) :
        g \in ScaledRegs, dt \in DecodeTypes, o \in DecodeOrders, sc \in Scales }

CodecCalls ==
    NumberCalls \cup ListCalls \cup ScaledCalls \cup RegisterCalls
    \cup ScaledRegisterCalls

\* ------------------------------------------------------------------------
\* The batch loop of run_mapping / main
\* ------------------------------------------------------------------------
ConnectOutcomes == {"ok", "refused", "raise"}
ReplyKinds == {"ok", "error", "raise"}

IsBitRead(row) == FnNorm(row.function) \in ReadCoilsNames \cup ReadDiscreteNames

Env(c, r, row) ==
    [connect |-> c, reply |-> r,
     data |-> IF IsBitRead(row) THEN wire.bits ELSE wire.regs]

\* list(clients.values()): the cached handles in insertion order
RECURSIVE SortedSeq(_)
SortedSeq(S) ==
    IF S = {} THEN <<>>
    ELSE LET m == CHOOSE x \in S : \A y \in S : x <= y
         IN  <<m>> \o SortedSeq(S \ {m})

CacheValues(cl) == SortedSeq({cl[k] : k \in DOMAIN cl})

NewHandle(key) == [key |-> key, closes |-> 0, closeRaised |-> FALSE]

\* The clients and the connect() calls after a call of perform_row that went
\* as out says (c is what connect() gave).
HandlesAfter(out) ==
    handles \o [i \in 1..Len(out.created) |-> NewHandle(out.created[i])]

ConnsAfter(out, c) ==
    IF out.connected = 0 THEN conns
    ELSE Append(conns, [row |-> idx, handle |-> out.connected, outcome |-> c])

LogAfter(out) ==
    log \o [i \in 1..Len(out.reqs) |->
              [row |-> idx, handle |-> out.connected, req |-> out.reqs[i]]]

Init ==
    /\ rows \in SeqsUpTo(BatchRows, MaxRows)
    /\ dry \in BOOLEAN
    /\ wire \in BatchWires
    /\ pc = "loop"
    /\ idx = 1
    /\ clients = <<>>
    /\ handles = <<>>
    /\ conns = <<>>
    /\ results = <<>>
    /\ log = <<>>
    /\ escaped = <<>>
    /\ closeQ = <<>>
    /\ call = NoneVal /\ enc = NoneVal /\ dec = NoneVal /\ cpc = "idle"

\* A loop that sends a failed request again instead of moving on.
RunRow_Retries ==
    /\ pc = "loop" /\ idx <= Len(rows)
    /\ \E c \in ConnectOutcomes, r \in ReplyKinds :
         \E out \in {perform_row(rows[idx], clients, Len(handles), dry,
                                 Env(c, r, rows[idx]))} :
             /\ ~out.raised
             /\ clients' = out.clients
             /\ handles' = HandlesAfter(out)
             /\ conns' = ConnsAfter(out, c)
             /\ log' = LogAfter(out)
             /\ IF ~out.result["ok"] /\ out.reqs # <<>> /\ Len(log) < MaxRows
                THEN results' = results /\ idx' = idx
                ELSE results' = Append(results, out.result) /\ idx' = idx + 1
    /\ UNCHANGED <<rows, dry, wire, pc, escaped, closeQ>>
    /\ UNCHANGED cvars

\* One iteration whose perform_row returns: the result is appended.
RunRow ==
    /\ pc = "loop" /\ idx <= Len(rows)
    /\ \E c \in ConnectOutcomes, r \in ReplyKinds :
         \E out \in {perform_row(rows[idx], clients, Len(handles), dry,
                                 Env(c, r, rows[idx]))} :
             /\ ~out.raised
             /\ clients' = out.clients
             /\ handles' = HandlesAfter(out)
             /\ conns' = ConnsAfter(out, c)
             /\ log' = LogAfter(out)
             /\ results' = Append(results, out.result)
             /\ idx' = idx + 1
    /\ UNCHANGED <<rows, dry, wire, pc, escaped, closeQ>>
    /\ UNCHANGED cvars

\* One iteration whose perform_row raises: the exception leaves the loop and
\* the finally block starts.
RowRaises ==
    /\ pc = "loop" /\ idx <= Len(rows)
    /\ \E c \in ConnectOutcomes, r \in ReplyKinds :
         \E out \in {perform_row(rows[idx], clients, Len(handles), dry,
                                 Env(c, r, rows[idx]))} :
             /\ out.raised
             /\ clients' = out.clients
             /\ handles' = HandlesAfter(out)
             /\ conns' = ConnsAfter(out, c)
             /\ log' = LogAfter(out)
             /\ escaped' = out.exc
             /\ closeQ' = CacheValues(out.clients)
    /\ pc' = "cleanup"
    /\ UNCHANGED <<rows, dry, wire, idx, results>>
    /\ UNCHANGED cvars

\* The loop has run through the rows: the finally block starts.
LoopEnd ==
    /\ pc = "loop" /\ idx > Len(rows)
    /\ pc' = "cleanup"
    /\ closeQ' = CacheValues(clients)
    /\ UNCHANGED <<rows, dry, wire, idx, clients, handles, conns, results, log, escaped>>
    /\ UNCHANGED cvars

\* A cleanup that a raising close() ends.
CloseOne_Abort ==
    /\ pc = "cleanup" /\ closeQ # <<>>
    /\ \E outcome \in {"ok", "raise"} :
         /\ handles' = [handles EXCEPT ![Head(closeQ)].closes = @ + 1,
                                       ![Head(closeQ)].closeRaised = (outcome = "raise")]
         /\ closeQ' = IF outcome = "raise" THEN <<>> ELSE Tail(closeQ)
    /\ UNCHANGED <<rows, dry, wire, pc, idx, clients, conns, results, log, escaped>>
    /\ UNCHANGED cvars

\* try: c.close() / except Exception: pass
CloseOne ==
    /\ pc = "cleanup" /\ closeQ # <<>>
    /\ \E outcome \in {"ok", "raise"} :
         handles' = [handles EXCEPT ![Head(closeQ)].closes = @ + 1,
                                    ![Head(closeQ)].closeRaised = (outcome = "raise")]
    /\ closeQ' = Tail(closeQ)
    /\ UNCHANGED <<rows, dry, wire, pc, idx, clients, conns, results, log, escaped>>
    /\ UNCHANGED cvars

\* The finally block is over: the results are returned, or the exception
\* that left the loop goes on to the caller.
BatchEnd ==
    /\ pc = "cleanup" /\ closeQ = <<>>
    /\ pc' = "done"
    /\ UNCHANGED <<rows, dry, wire, idx, clients, handles, conns, results, log, escaped,
                   closeQ>>
    /\ UNCHANGED cvars

Next == RunRow \/ RowRaises \/ LoopEnd \/ CloseOne \/ BatchEnd

Spec == Init /\ [][Next]_vars

\* One-row runs over the wide set of rows.
InitRow ==
    /\ rows \in { <<r>> : r \in OneRows }
    /\ dry \in BOOLEAN
    /\ wire \in RowWires
    /\ pc = "loop"
    /\ idx = 1
    /\ clients = <<>>
    /\ handles = <<>>
    /\ conns = <<>>
    /\ results = <<>>
    /\ log = <<>>
    /\ escaped = <<>>
    /\ closeQ = <<>>
    /\ call = NoneVal /\ enc = NoneVal /\ dec = NoneVal /\ cpc = "idle"

SpecRow == InitRow /\ [][Next]_vars

\* ------------------------------------------------------------------------
\* Codec calls: build_registers, then decode_registers on its output
\* ------------------------------------------------------------------------
InitCodec ==
    /\ call \in CodecCalls
    /\ enc = NoneVal /\ dec = NoneVal /\ cpc = "start"
    /\ rows = <<>> /\ dry = FALSE /\ wire \in BatchWires /\ pc = "idle" /\ idx = 1
    /\ clients = <<>> /\ handles = <<>> /\ conns = <<>> /\ results = <<>> /\ log = <<>>
    /\ escaped = <<>> /\ closeQ = <<>>

Encode ==
    /\ cpc = "start" /\ call.op = "encode"
    /\ enc' = build_registers(call.text, call.datatype, call.endianness, call.scale)
    /\ cpc' = "encoded"
    /\ UNCHANGED <<call, dec>>
    /\ UNCHANGED bvars

Decode ==
    /\ cpc = "encoded" /\ enc.ok
    /\ dec' = decode_registers(enc.regs, call.datatype, call.endianness, call.scale)
    /\ cpc' = "decoded"
    /\ UNCHANGED <<call, enc>>
    /\ UNCHANGED bvars

\* decode_registers on the registers of the call.
DecodeGiven ==
    /\ cpc = "start" /\ call.op = "decode"
    /\ dec' = decode_registers(call.regs, call.datatype, call.endianness, call.scale)
    /\ cpc' = "read"
    /\ UNCHANGED <<call, enc>>
    /\ UNCHANGED bvars

NextCodec == Encode \/ Decode \/ DecodeGiven

SpecCodec == InitCodec /\ [][NextCodec]_vars

\* ------------------------------------------------------------------------
\* Endpoint calls: parse_host_port on one address text
\* ------------------------------------------------------------------------
HostChars == {"[", "]", ":", " ", "a", "1"}
HostSamples ==
    { <<"[",":",":","1","]",":","1","5","0","2">>, <<"1","0",".","0",".","0",".","5">>,
      <<"h",":","1","2","3","4","5">>, <<"h",":","1","2","3","4","5","6">>,
      <<"[","a",":","b","]",":","1","2","3","4","5","6">>,
      <<" ","[","f","e","8","0",":",":","1","]",":","8","0"," ">>,
      <<"a",":","1",":","2","0">> }

ParseCall(text) ==
    [op |-> "parse", text |-> text, regs |-> <<>>, datatype |-> <<>>,
     endianness |-> <<>>, scale |-> NoneVal]

ParseCalls == { ParseCall(t) : t \in SeqsUpTo(HostChars, MaxHost) \cup HostSamples }

InitParse ==
    /\ call \in ParseCalls
    /\ enc = NoneVal /\ dec = NoneVal /\ cpc = "start"
    /\ rows = <<>> /\ dry = FALSE /\ wire \in BatchWires /\ pc = "idle" /\ idx = 1
    /\ clients = <<>> /\ handles = <<>> /\ conns = <<>> /\ results = <<>> /\ log = <<>>
    /\ escaped = <<>> /\ closeQ = <<>>

ParseHost ==
    /\ cpc = "start" /\ call.op = "parse"
    /\ dec' = parse_host_port(call.text, DefaultPort)
    /\ cpc' = "parsed"
    /\ UNCHANGED <<call, enc>>
    /\ UNCHANGED bvars

NextParse == ParseHost

SpecParse == InitParse /\ [][NextParse]_vars

\* ------------------------------------------------------------------------
\* Properties of the batch loop
\* ------------------------------------------------------------------------
RequestsOf(i) == {j \in 1..Len(log) : log[j].row = i}
ConnsOf(i) == {j \in 1..Len(conns) : conns[j].row = i}
IsConnectFailed(res) == "error" \in DOMAIN res /\ res["error"][1] = "connect failed"

\* C1: a batch run produces exactly one result per input row, in input order;
\* no row, whatever its field values or its outcome, makes the batch stop
\* early or skip a row.
C1_OneResultPerRow == pc = "done" => Len(results) = Len(rows)

\* C2: perform_row never propagates a fault to its caller: an exception raised
\* while connecting the client is caught and returned as a result with
\* ok=false and error "<exception kind>: <message>".
C2_ConnectFaultReturned ==
    /\ escaped # ConnectFault
    /\ \A j \in 1..Len(conns) :
         conns[j].outcome = "raise" =>
           /\ conns[j].row <= Len(results)
           /\ results[conns[j].row] = Failed(ErrException(ConnectFault))

\* C3: when connect returns false for an operation's endpoint, that
\* operation's result is ok=false with error "connect failed: host:port", no
\* read or write request is issued for it, the results of the operations
\* before it are kept and the loop goes on to the operation after it.
C3_ConnectRefused ==
    \A j \in 1..Len(conns) :
      conns[j].outcome = "refused" =>
        LET i == conns[j].row
            k == handles[conns[j].handle].key
        IN  /\ i <= Len(results)
            /\ results[i] = (("error" :> <<"connect failed", k[1], k[2]>>)
                             @@ ("ok" :> FALSE))
            /\ RequestsOf(i) = {}
            /\ idx > i
            /\ \A b \in 1..(i - 1) : b <= Len(results)

C3_Witness ==
    /\ pc = "done" /\ Len(rows) = 3 /\ Len(results) = 3
    /\ results[1]["ok"] /\ IsConnectFailed(results[2]) /\ results[3]["ok"]
    /\ \E j \in 1..Len(conns) : conns[j].row = 2 /\ conns[j].outcome = "refused"

C5_OneHandlePerKeyClosedOnce ==
    /\ \A a, b \in 1..Len(handles) : handles[a].key = handles[b].key => a = b
    /\ \A m \in 1..Len(conns) :
         handles[conns[m].handle].key = RowKey(rows[conns[m].row])
    /\ \A h \in 1..Len(handles) :
         /\ handles[h].closes <= 1
         /\ pc = "loop" => handles[h].closes = 0
         /\ pc = "done" => handles[h].closes = 1

C5_Witness ==
    /\ pc = "done" /\ Len(handles) = 2 /\ Len(conns) = 3 /\ Len(results) = 3
    /\ \E i \in 1..3 : ~results[i]["ok"]
    /\ \E a, b \in 1..3 : a # b /\ conns[a].handle = conns[b].handle
    /\ \A h \in 1..2 : handles[h].closes = 1

\* C6: the cleanup runs on every exit path of the loop, also when an
\* exception leaves it, and closes every cached client: a close() that
\* raises does not keep the remaining clients from being closed, and nothing
\* is connected or requested once the cleanup has begun.
C6_CleanupClosesAll ==
    [][/\ (pc = "loop" /\ pc' # "loop") => pc' = "cleanup"
       /\ pc' = "done" =>
            \A k \in DOMAIN clients' : handles'[clients'[k]].closes = 1
       /\ pc # "loop" => (log' = log /\ conns' = conns)]_vars

C6_Witness ==
    /\ pc = "done" /\ escaped # <<>> /\ Len(handles) = 2
    /\ handles[1].closeRaised /\ handles[2].closes = 1

WriteOps == {"write_coil", "write_coils", "write_register", "write_registers"}
ReadOps == {"read_coils", "read_discrete_inputs", "read_holding_registers",
            "read_input_registers"}
CoilWriteNames == WriteCoilNames \cup WriteCoilsNames
RegisterWriteNames == WriteRegisterNames \cup WriteRegistersNames
ReadNames == ReadCoilsNames \cup ReadDiscreteNames \cup ReadHoldingNames \cup ReadInputNames
RecognizedNames == ReadNames \cup CoilWriteNames \cup RegisterWriteNames

\* The registers the value text of row r encodes to, if it does.
RowEncoding(r) ==
    build_registers(ValueText(r.value), StrLower(r.datatype), r.endianness,
                    FloatField(r.scale).v)

\* C9: with dry set no write primitive is ever invoked on the transport; a
\* write operation (single or multiple, coil or register) that has its
\* connection, and whose value text encodes, issues no request and reports
\* ok=true with the would-be value; a read operation that has its connection
\* is still sent to the device.
C9_DryRun ==
    dry =>
      /\ \A j \in 1..Len(log) : log[j].req.op \notin WriteOps
      /\ \A m \in 1..Len(conns) :
           conns[m].outcome = "ok" =>
             LET i == conns[m].row
                 r == rows[i]
                 fn == FnNorm(r.function)
                 text == ValueText(r.value)
             IN  /\ fn \in WriteCoilNames =>
                      results[i] = (("value" :> [bool |-> CoilTruthy(text)])
                                    @@ ("ok" :> TRUE))
                 /\ fn \in WriteCoilsNames =>
                      results[i] = (("value" :> [list |-> CoilBits(text)])
                                    @@ ("ok" :> TRUE))
                 /\ (fn \in WriteRegisterNames /\ RowEncoding(r).ok) =>
                      results[i] = (("registers" :> <<RowEncoding(r).regs[1]>>)
                                    @@ ("value" :> [text |-> text]) @@ ("ok" :> TRUE))
                 /\ (fn \in WriteRegistersNames /\ RowEncoding(r).ok) =>
                      results[i] = (("registers" :> RowEncoding(r).regs)
                                    @@ ("value" :> [text |-> text]) @@ ("ok" :> TRUE))
                 /\ fn \in ReadNames =>
                      \E j \in 1..Len(log) :
                        /\ RequestsOf(i) = {j}
                        /\ log[j].req.op \in ReadOps

C9_Witness ==
    /\ dry /\ pc = "done" /\ Len(results) = 1 /\ log = <<>>
    /\ FnNorm(rows[1].function) = "write_multi_registers"
    /\ rows[1].value = [text |-> <<"7",",","-","2">>]
    /\ rows[1].datatype = INT16
    /\ results[1]["ok"] /\ results[1]["registers"] = <<7, 65534>>

\* C10: an operation that has its connection and whose function name is not
\* one of the recognized names yields ok=false with error "unsupported
\* function: <name>", issues no read or write request, and the loop goes on
\* to the next row.
C10_UnsupportedFunction ==
    \A m \in 1..Len(conns) :
      LET i == conns[m].row
          fn == FnNorm(rows[i].function)
      IN  (conns[m].outcome = "ok" /\ fn \notin RecognizedNames) =>
            /\ i <= Len(results)
            /\ results[i] = (("error" :> <<"unsupported function", fn>>)
                             @@ ("ok" :> FALSE))
            /\ RequestsOf(i) = {}
            /\ idx > i

C10_Witness ==
    /\ pc = "done" /\ Len(rows) = 3 /\ Len(results) = 3
    /\ rows[2].function = "frobnicate"
    /\ results[2]["error"] = <<"unsupported function", "frobnicate">>
    /\ results[1]["ok"] /\ results[3]["ok"]

\* The tokens of a value text, and those that are neither one of the six
\* words nor a numeric literal.
TokensOf(text) == SelectNonEmpty(ReSplit(StrStrip(text)))

IsNumericToken(tok) ==
    \/ StrLower(StrStrip(tok)) \in TrueWords \cup FalseWords
    \/ ParseFloat(tok).ok

BadTokens(text) == SelectSeq(TokensOf(text), LAMBDA tok : ~IsNumericToken(tok))

\* C11: a register write that has its connection and whose value text holds a
\* token that is neither true/on/yes, false/off/no nor a numeric literal
\* yields ok=false with the error "ValueError: ... <token>" naming the first
\* such token and nothing else (no registers, so no 0 in its place); no
\* request is issued for it, the results before it are kept and the loop
\* goes on to the next row.
C11_BadTokenFails ==
    \A m \in 1..Len(conns) :
      LET i == conns[m].row
          fn == FnNorm(rows[i].function)
          bad == BadTokens(ValueText(rows[i].value))
      IN  (conns[m].outcome = "ok" /\ fn \in RegisterWriteNames /\ bad # <<>>) =>
            /\ i <= Len(results)
            /\ results[i] = (("error" :> <<"exception", "ValueError", bad[1]>>)
                             @@ ("ok" :> FALSE))
            /\ RequestsOf(i) = {}
            /\ idx > i

C11_Witness ==
    /\ pc = "done" /\ ~dry /\ Len(rows) = 3 /\ Len(results) = 3
    /\ rows[2].value = [text |-> <<"7",","," ","x">>]
    /\ results[2]["error"] = <<"exception", "ValueError", <<"x">>>>
    /\ results[1]["ok"] /\ results[3]["ok"]
    /\ \E j \in 1..Len(log) : log[j].row = 3

\* The normalized count of row r, and the first n entries of a response.
C12_Count(r) == IF IntField(r.count, 1).v <= 0 THEN 1 ELSE IntField(r.count, 1).v

C12_FirstN(s, n) == [k \in 1..(IF n < Len(s) THEN n ELSE Len(s)) |-> s[k]]

C12_Signed16(x) == IF x < 32768 THEN x ELSE x - 65536

\* C12: a read that succeeded, with normalized count n >= 1, was requested
\* with count n and its result is built from the first n entries of the
\* response only: a coil/discrete read returns those bits unchanged, the one
\* bit itself if there is exactly one and the ordered list otherwise; a
\* register read returns them as registers and their decoding as value,
\* which for int16 is the one signed value if there is exactly one register
\* and the ordered list of the signed values if there are several.
C12_ReadTruncates ==
    \A m \in 1..Len(conns) :
      LET i == conns[m].row
          r == rows[i]
          fn == FnNorm(r.function)
          n == C12_Count(r)
      IN  (conns[m].outcome = "ok" /\ fn \in ReadNames /\ results[i]["ok"]) =>
            /\ n >= 1
            /\ \A j \in RequestsOf(i) : log[j].req.arg = n
            /\ fn \in ReadCoilsNames \cup ReadDiscreteNames =>
                 LET bits == C12_FirstN(wire.bits, n)
                 IN  /\ DOMAIN results[i] = {"ok", "value"}
                     /\ results[i]["value"] =
                          (IF Len(bits) = 1 THEN [bool |-> bits[1]] ELSE [list |-> bits])
            /\ fn \in ReadHoldingNames \cup ReadInputNames =>
                 LET regs == C12_FirstN(wire.regs, n)
                 IN  /\ DOMAIN results[i] = {"ok", "value", "registers"}
                     /\ results[i]["registers"] = regs
                     /\ results[i]["value"] =
                          decode_registers(regs, StrLower(r.datatype), r.endianness,
                                           FloatField(r.scale).v)
                     /\ (r.datatype = INT16 /\ r.scale = One /\ Len(regs) = 1) =>
                          results[i]["value"] = [int |-> C12_Signed16(regs[1])]
                     /\ (r.datatype = INT16 /\ r.scale = One /\ Len(regs) > 1) =>
                          results[i]["value"] =
                            [list |-> [k \in 1..Len(regs) |->
                                         [int |-> C12_Signed16(regs[k])]]]

C12_Witness ==
    /\ pc = "done" /\ Len(results) = 1
    /\ FnNorm(rows[1].function) = "read_holding" /\ rows[1].datatype = INT16
    /\ rows[1].count = [int |-> 2] /\ rows[1].scale = One
    /\ wire.regs = <<65535, 2, 3>>
    /\ results[1]["ok"]
    /\ results[1]["registers"] = <<65535, 2>>
    /\ results[1]["value"] = [list |-> <<[int |-> -1], [int |-> 2]>>]

\* The row carries no scale or the scale 0: none, a blank, 0, 0.0 or "0".
C18_NoScale(r) == Falsy(r.scale) \/ FloatField(r.scale).v.n = 0

C18_Encoding(r) ==
    build_registers(ValueText(r.value), StrLower(r.datatype), r.endianness, Rat(1, 1))

\* C18: a scale of 0, or a missing one, is no scaling in both directions: a
\* register row that carries it gets the registers and the value the scale 1
\* gives and never a division-by-zero fault, and build_registers and
\* decode_registers called with the scale 0 or None give what they give with
\* the scale 1.
C18_ZeroScaleIsNoScale ==
    \A m \in 1..Len(conns) :
      LET i == conns[m].row
          r == rows[i]
          fn == FnNorm(r.function)
      IN  (conns[m].outcome = "ok" /\ C18_NoScale(r) /\ i <= Len(results)) =>
            /\ ("error" \in DOMAIN results[i]) =>
                 results[i]["error"] # <<"exception", "ZeroDivisionError">>
            /\ (fn \in WriteRegistersNames /\ C18_Encoding(r).ok) =>
                 /\ ("registers" \in DOMAIN results[i]) =>
                      results[i]["registers"] = C18_Encoding(r).regs
                 /\ \A j \in RequestsOf(i) : log[j].req.arg = C18_Encoding(r).regs
            /\ (fn \in WriteRegisterNames /\ C18_Encoding(r).ok) =>
                 /\ ("registers" \in DOMAIN results[i]) =>
                      results[i]["registers"] = <<C18_Encoding(r).regs[1]>>
                 /\ \A j \in RequestsOf(i) : log[j].req.arg = C18_Encoding(r).regs[1]
            /\ (fn \in ReadHoldingNames \cup ReadInputNames /\ results[i]["ok"]) =>
                 results[i]["value"] =
                   decode_registers(results[i]["registers"], StrLower(r.datatype),
                                    r.endianness, Rat(1, 1))
            /\ \A sc \in {Rat(0, 1), NoneVal} :
                 /\ build_registers(ValueText(r.value), StrLower(r.datatype),
                                    r.endianness, sc) = C18_Encoding(r)
                 /\ decode_registers(wire.regs, StrLower(r.datatype), r.endianness, sc)
                      = decode_registers(wire.regs, StrLower(r.datatype),
                                         r.endianness, Rat(1, 1))

C18_Witness ==
    /\ pc = "done" /\ ~dry /\ Len(results) = 1
    /\ FnNorm(rows[1].function) = "write_multi_registers"
    /\ rows[1].scale = PyText(<<"0">>) /\ rows[1].datatype = INT16
    /\ rows[1].value = PyText(<<"7",",","-","2">>)
    /\ results[1]["ok"]
    /\ results[1]["registers"] = <<7, 65534>>
    /\ \E j \in RequestsOf(1) : log[j].req.arg = <<7, 65534>>

\* ------------------------------------------------------------------------
\* Properties of the codec
\* ------------------------------------------------------------------------
FourOrders == {ABCD, BADC, CDAB, DCBA}

InRange(x, dt) ==
    IF dt = INT16 THEN x >= -32768 /\ x <= 32767
    ELSE IF dt = UINT16 THEN x >= 0 /\ x <= 65535
    ELSE TRUE

\* C7: round trip with scale 1: for int16, uint16 and int32, each of the four
\* orders and every integer x in the datatype's range, decoding the encoding
\* of x gives x; for float32 decoding gives back the four bytes encoding made.
C7_RoundTrip ==
    (/\ cpc = "decoded" /\ call \in NumberCalls
     /\ call.endianness \in FourOrders /\ call.scale = Rat(1, 1)) =>
      /\ call.datatype \in {INT16, UINT16, INT32} =>
           \A x \in IntSamples :
             (call.text = IntToText(x) /\ InRange(x, call.datatype)) => dec = [int |-> x]
      /\ call.datatype = FLOAT32 =>
           /\ Len(enc.regs) = 2
           /\ dec = [f32 |-> F32Bytes(ParseFloat(call.text).v)]

C7_Witness ==
    /\ cpc = "decoded" /\ call.datatype = INT32 /\ call.endianness = DCBA
    /\ call.text = IntToText(-16909060)
    /\ enc.regs = <<64764, 65022>>
    /\ dec = [int |-> -16909060]

\* The layout an order code stands for: the four codes in any letter case,
\* ABCD for every other code.
C8_Layout(order) ==
    IF order \in {CDAB, <<"c","d","a","b">>} THEN "CDAB"
    ELSE IF order \in {DCBA, <<"D","c","b","A">>} THEN "DCBA"
    ELSE IF order = BADC THEN "BADC"
    ELSE "ABCD"

C8_Registers(b, layout) ==
    IF layout = "ABCD" THEN <<b[1] * 256 + b[2], b[3] * 256 + b[4]>>
    ELSE IF layout = "CDAB" THEN <<b[3] * 256 + b[4], b[1] * 256 + b[2]>>
    ELSE IF layout = "BADC" THEN <<b[2] * 256 + b[1], b[4] * 256 + b[3]>>
    ELSE <<b[4] * 256 + b[3], b[2] * 256 + b[1]>>

\* C8: a 32-bit value with big-endian bytes A B C D is encoded as
\* [(A,B),(C,D)] for ABCD, [(C,D),(A,B)] for CDAB, [(B,A),(D,C)] for BADC and
\* [(D,C),(B,A)] for DCBA; the code is matched without regard to case and any
\* other code (the empty one too) behaves as ABCD, on encode and on decode,
\* for int32 and float32 alike.
C8_OrderLayouts ==
    (/\ cpc \in {"encoded", "decoded"} /\ call \in NumberCalls
     /\ call.datatype \in {INT32, FLOAT32}) =>
      LET v == ParseFloat(call.text).v
          b == IF call.datatype = INT32 THEN I32Bytes(RoundHalfEven(v))
               ELSE F32Bytes(v)
          layout == C8_Layout(call.endianness)
      IN  /\ enc.regs = C8_Registers(b, layout)
          /\ cpc = "decoded" =>
               /\ dec = (IF call.datatype = INT32 THEN [int |-> I32FromBytes(b)]
                         ELSE [f32 |-> b])
               /\ layout = "ABCD" =>
                    dec = decode_registers(enc.regs, call.datatype, ABCD, call.scale)

C8_Witness ==
    /\ cpc = "decoded" /\ call.datatype = FLOAT32
    /\ call.endianness = <<"c","d","a","b">>
    /\ call.text = <<"1",".","5">>
    /\ enc.regs = <<0, 16320>>
    /\ dec = [f32 |-> <<63, 192, 0, 0>>]

\* The value decode_registers gives for the k-th pair of regs on its own.
C13_PairValue(k) ==
    decode_registers(SubSeq(call.regs, 2 * k - 1, 2 * k), call.datatype,
                     call.endianness, call.scale)

C13_PairValues == [k \in 1..(Len(call.regs) \div 2) |-> C13_PairValue(k)]

\* C13: decode_registers returns None, which is not the value 0, for an empty
\* register list; for int32 and float32 it takes the registers two at a time
\* and drops a trailing unpaired register, so that its values are those of
\* the complete pairs in order; a single register gives no value (the empty
\* list, and None from the unpack functions) and no exception.
C13_DecodeShapes ==
    cpc = "read" =>
      /\ call.regs = <<>> => (dec = NoneVal /\ dec # PyInt(0))
      /\ (call.regs # <<>> /\ call.datatype \in {INT32, FLOAT32}) =>
           /\ dec = (IF Len(call.regs) \div 2 = 1 THEN C13_PairValue(1)
                     ELSE PyList(C13_PairValues))
           /\ Len(call.regs) = 1 =>
                /\ dec = PyList(<<>>)
                /\ unpack_i32_from_regs(call.regs, call.endianness) = NoneVal
                /\ unpack_f32_from_regs(call.regs, call.endianness) = NoneVal

C13_Witness ==
    /\ cpc = "read" /\ call.datatype = INT32 /\ call.endianness = ABCD
    /\ call.regs = <<0, 5, 1>> /\ call.scale = Rat(1, 1)
    /\ dec = PyInt(5)

\* C14: decode_registers with datatype bool returns true if and only if the
\* first register of a non-empty list is nonzero, whatever the number of
\* registers (1 and 0 are taken for true and false, as Python compares them).
C14_BoolFirstRegister ==
    (cpc = "read" /\ call.datatype = BoolType /\ call.regs # <<>>) =>
      IF call.regs[1] # 0 THEN dec \in {PyBool(TRUE), PyInt(1)}
      ELSE dec \in {PyBool(FALSE), PyInt(0)}

\* C15: decode_registers with datatype raw returns the register list as it
\* is for every non-empty input and every scale.
C15_RawUnmodified ==
    (cpc = "read" /\ call.datatype = RawType /\ call.regs # <<>>) =>
      dec = PyList([i \in 1..Len(call.regs) |-> PyInt(call.regs[i])])

\* The tokens of a value text: its maximal runs of characters other than
\* commas, semicolons and whitespace, in order; "0" alone if there is none.
C16_Starts(t) == {i \in 1..Len(t) : ~IsDelim(t[i]) /\ (i = 1 \/ IsDelim(t[i - 1]))}

C16_Nth(S, k) == CHOOSE i \in S : Cardinality({j \in S : j < i}) = k - 1

C16_End(t, i) ==
    CHOOSE j \in i..Len(t) :
      /\ \A m \in i..j : ~IsDelim(t[m])
      /\ j = Len(t) \/ IsDelim(t[j + 1])

C16_Runs(t) ==
    [k \in 1..Cardinality(C16_Starts(t)) |->
       SubSeq(t, C16_Nth(C16_Starts(t), k), C16_End(t, C16_Nth(C16_Starts(t), k)))]

C16_Tokens(t) == IF C16_Runs(t) = <<>> THEN << <<"0">> >> ELSE C16_Runs(t)

RECURSIVE C16_Concat(_)
C16_Concat(groups) ==
    IF groups = <<>> THEN <<>> ELSE Head(groups) \o C16_Concat(Tail(groups))

C16_Width(dt) == IF dt \in {INT32, FLOAT32} THEN 2 ELSE 1

\* C16: build_registers splits the value text on commas, semicolons and
\* whitespace runs, takes an empty text for the token "0", and returns the
\* register groups of the tokens concatenated in token order: one register
\* per token for int16 and uint16, two for int32 and float32; the output is
\* never empty and every register is in 0..65535.
C16_TokenGroups ==
    (cpc = "encoded" /\ enc.ok) =>
      /\ enc.regs =
           C16_Concat([k \in 1..Len(C16_Tokens(call.text)) |->
                         build_registers(C16_Tokens(call.text)[k], call.datatype,
                                         call.endianness, call.scale).regs])
      /\ call.datatype \in CodecTypes =>
           Len(enc.regs) = C16_Width(call.datatype) * Len(C16_Tokens(call.text))
      /\ enc.regs # <<>>
      /\ \A i \in 1..Len(enc.regs) : enc.regs[i] \in 0..65535

C16_Witness ==
    /\ cpc = "encoded" /\ call.datatype = INT16 /\ call.endianness = ABCD
    /\ call.text = <<"1","0","0",",","1","0","1",",","1","0","2">>
    /\ call.scale = Rat(1, 1)
    /\ enc.regs = <<100, 101, 102>>

\* The signed 16-bit reading of a register.
C17_Signed(r) == IF r < 32768 THEN r ELSE r - 65536

C19_Abs(x) == IF x < 0 THEN -x ELSE x

C19_Value == ParseFloat(call.text).v

C19_Whole ==
    (C19_Value.n * call.scale.d) % (C19_Value.d * C19_Abs(call.scale.n)) = 0

C19_Raw ==
    IF call.scale.n < 0
    THEN -((C19_Value.n * call.scale.d) \div (C19_Value.d * (-call.scale.n)))
    ELSE (C19_Value.n * call.scale.d) \div (C19_Value.d * call.scale.n)

C19_Case ==
    /\ cpc = "decoded" /\ call \in ScaledCalls
    /\ call.datatype \in {INT16, UINT16, INT32}
    /\ ParseFloat(call.text).ok
    /\ C19_Whole
    /\ InRange(C19_Raw, call.datatype)

C19_Encoded ==
    enc.regs = (IF call.datatype = INT32 THEN pack_i32_to_regs(C19_Raw, call.endianness)
                ELSE <<C19_Raw % 65536>>)

\* Equal as Python floats (0.0 and -0.0 are equal).
C19_Same(x, y) == x = y \/ (x.m = <<>> /\ y.m = <<>>)

\* |x - y| <= |y| / 2^51 for the doubles x and y: with both brought to the
\* lower of the two exponents, the difference of the mantissas is at most
\* that of y without its last 51 bits.
C19_Diff(a, b) == IF QLess(a, b) THEN QSub(b, a) ELSE QSub(a, b)

C19_Within(xm, ym) ==
    ~QLess(<<0, 0, 0, NatOfBits(SubSeq(ym, 1, Len(ym) - 51))>>,
           C19_Diff(QuadOfBits(xm), QuadOfBits(ym)))

C19_Near(x, y) ==
    IF x.m = <<>> \/ y.m = <<>> THEN x.m = y.m
    ELSE /\ x.neg = y.neg
         /\ x.e - y.e \in {-1, 0, 1}
         /\ C19_Within(x.m \o Zeros(IF x.e > y.e THEN 1 ELSE 0),
                       y.m \o Zeros(IF y.e > x.e THEN 1 ELSE 0))

C19_PowerOfTwo(sc) == sc \in {Rat(2, 1), Rat(1, 2)}

C20_Bits(text) ==
    IF C16_Runs(text) = <<>> THEN <<FALSE>>
    ELSE [k \in 1..Len(C16_Runs(text)) |->
            StrLower(C16_Runs(text)[k])
              \in {<<"1">>, <<"t","r","u","e">>, <<"o","n">>, <<"y","e","s">>}]

\* C20: a write-multiple-coils operation never writes an empty list: a value
\* text that is empty or holds delimiters only becomes the one entry False;
\* otherwise there is one boolean per token, in token order, true exactly
\* for the tokens 1/true/on/yes in any letter case. The list is what is sent
\* to the device and what the result reports as value.
C20_CoilsNeverEmpty ==
    \A m \in 1..Len(conns) :
      LET i == conns[m].row
          fn == FnNorm(rows[i].function)
          bits == C20_Bits(ValueText(rows[i].value))
      IN  (conns[m].outcome = "ok" /\ fn \in WriteCoilsNames) =>
            /\ bits # <<>>
            /\ \A j \in RequestsOf(i) :
                 /\ log[j].req.op = "write_coils"
                 /\ log[j].req.arg = bits
            /\ (i <= Len(results) /\ "value" \in DOMAIN results[i]) =>
                 results[i]["value"] = PyList(bits)
            /\ (i <= Len(results) /\ results[i]["ok"]) =>
                 "value" \in DOMAIN results[i]

C20_Witness ==
    /\ pc = "done" /\ ~dry /\ Len(results) = 1
    /\ FnNorm(rows[1].function) = "write_multi"
    /\ rows[1].value = PyText(<<" ",","," ",";">>)
    /\ results[1]["ok"]
    /\ results[1]["value"] = PyList(<<FALSE>>)
    /\ \E j \in RequestsOf(1) : log[j].req.arg = <<FALSE>>

\* A port suffix: one to five digits.
C21_IsPort(p) == Len(p) \in 1..5 /\ \A i \in 1..Len(p) : IsDigit(p[i])

\* t ends after position k, or goes on with a colon and a port.
C21_EndsAt(t, k) ==
    \/ k = Len(t)
    \/ k < Len(t) /\ t[k + 1] = ":" /\ C21_IsPort(SubSeq(t, k + 2, Len(t)))

C21_Port(t, k) ==
    IF k = Len(t) THEN DefaultPort ELSE AccDigits(SubSeq(t, k + 2, Len(t)), 1, 0)

\* "[lit]" or "[lit]:port": where the closing bracket is.
C21_Brackets(t) ==
    {c \in 3..Len(t) : /\ t[1] = "[" /\ t[c] = "]"
                       /\ \A j \in 2..(c - 1) : t[j] # "]"
                       /\ C21_EndsAt(t, c)}

\* "host" or "host:port" with a colon-free, whitespace-free host: where the
\* host ends.
C21_Hosts(t) ==
    {k \in 1..Len(t) : /\ \A j \in 1..k : t[j] # ":" /\ ~IsSpace(t[j])
                       /\ C21_EndsAt(t, k)}

C21_Parsed(t) ==
    IF t = <<>> THEN [host |-> <<>>, port |-> DefaultPort]
    ELSE IF C21_Brackets(t) # {}
    THEN [host |-> StrStrip(SubSeq(t, 2, (CHOOSE c \in C21_Brackets(t) : TRUE) - 1)),
          port |-> C21_Port(t, CHOOSE c \in C21_Brackets(t) : TRUE)]
    ELSE IF C21_Hosts(t) # {}
    THEN [host |-> SubSeq(t, 1, CHOOSE k \in C21_Hosts(t) : TRUE),
          port |-> C21_Port(t, CHOOSE k \in C21_Hosts(t) : TRUE)]
    ELSE [host |-> t, port |-> DefaultPort]

\* C21: parse_host_port returns a host and a port for every text and never
\* raises: empty or whitespace-only text gives ("", default_port); "[lit]"
\* and "[lit]:port" give the literal inside the brackets with the parsed or
\* the default port; "host" and "host:port" with a colon-free,
\* whitespace-free host give that host with the parsed or the default port;
\* any other text gives the whole trimmed text as host with the default port.
C21_ParseNeverRaises ==
    cpc = "parsed" =>
      /\ DOMAIN dec = {"host", "port"}
      /\ dec = C21_Parsed(StrStrip(call.text))
      /\ Cardinality(C21_Brackets(StrStrip(call.text))) <= 1
      /\ Cardinality(C21_Hosts(StrStrip(call.text))) <= 1

C21_Witness ==
    /\ cpc = "parsed"
    /\ call.text = <<"[",":",":","1","]",":","1","5","0","2">>
    /\ dec = [host |-> <<":",":","1">>, port |-> 1502]

\* C22: the operations of a batch run strictly in input order and without
\* retry: the requests on the transport are in the order of their rows, a
\* row issues at most one request and connects at most once, every request
\* belongs to a row the loop has already left, and a failed row keeps its
\* single request while the rows after it go on.
C22_Ordered(s) == \A j, k \in 1..Len(s) : j < k => s[j].row < s[k].row

C22_InOrderNoRetry ==
    /\ C22_Ordered(log)
    /\ C22_Ordered(conns)
    /\ \A j \in 1..Len(log) : log[j].row < idx
    /\ \A j \in 1..Len(conns) : conns[j].row <= idx
    /\ Len(results) = idx - 1
    /\ \A i \in 1..Len(results) :
         ~results[i]["ok"] => Cardinality(RequestsOf(i)) <= 1

C22_Witness ==
    /\ pc = "done" /\ Len(rows) = 3 /\ Len(results) = 3
    /\ ~results[2]["ok"] /\ Cardinality(RequestsOf(2)) = 1
    /\ results[3]["ok"]
    /\ Len(log) = 3 /\ log[1].row = 1 /\ log[2].row = 2 /\ log[3].row = 3

\* C23: a write-single-register row writes exactly one register, the first
\* register of build_registers' encoding of the value text, and reports that
\* one register in "registers"; with datatype int32/float32 or a text of
\* several tokens the other encoded registers are neither written nor
\* reported.
C23_First(r) == RowEncoding(r).regs[1]

C23_SingleRegister ==
    \A m \in 1..Len(conns) :
      LET i == conns[m].row
          r == rows[i]
      IN  (/\ conns[m].outcome = "ok" /\ i <= Len(results)
           /\ FnNorm(r.function) \in WriteRegisterNames
           /\ RowEncoding(r).ok) =>
            /\ Cardinality(RequestsOf(i)) = (IF dry THEN 0 ELSE 1)
            /\ \A j \in RequestsOf(i) :
                 /\ log[j].req.op = "write_register"
                 /\ log[j].req.arg = C23_First(r) % 65536
                 /\ log[j].req.addr = IntField(r.address, 0).v
            /\ results[i]["ok"] => "registers" \in DOMAIN results[i]
            /\ ("registers" \in DOMAIN results[i]) =>
                 results[i]["registers"] = <<C23_First(r)>>

C23_Witness ==
    /\ pc = "done" /\ ~dry /\ Len(results) = 1
    /\ FnNorm(rows[1].function) = "write_register"
    /\ rows[1].datatype = INT32
    /\ rows[1].value = PyText(<<"7",",","-","2">>)
    /\ Len(RowEncoding(rows[1]).regs) = 4
    /\ results[1]["ok"]
    /\ results[1]["registers"] = <<C23_First(rows[1])>>
    /\ \E j \in RequestsOf(1) :
         log = <<log[j]>> /\ log[j].req.arg = C23_First(rows[1])

\* C24: in every result perform_row returns, ok is false exactly when an
\* error field is present; an error response of the transport to a read or
\* a write gives ok false with the transport's error text for that request,
\* a raised transport call gives ok false with the exception's text, and a
\* success gives ok true and no error field.
C24_TransportErrors(i) ==
    { ErrTransport(log[j].req.op) : j \in RequestsOf(i) }
    \cup { ErrException(TransportFault) }

C24_OkIffNoError ==
    \A i \in 1..Len(results) :
      /\ results[i]["ok"] \in BOOLEAN
      /\ ~results[i]["ok"] <=> "error" \in DOMAIN results[i]
      /\ (RequestsOf(i) # {} /\ "error" \in DOMAIN results[i]) =>
           results[i]["error"] \in C24_TransportErrors(i)
      /\ ("error" \in DOMAIN results[i]
            /\ results[i]["error"][1] = "transport error") =>
           /\ ~results[i]["ok"]
           /\ \E j \in RequestsOf(i) : results[i]["error"] = ErrTransport(log[j].req.op)

C24_Witness ==
    /\ pc = "done" /\ Len(results) = 3 /\ Len(log) = 3
    /\ results[1] = Failed(ErrTransport("read_holding_registers"))
    /\ log[2].req.op \in WriteOps
    /\ log[2].row = 2 /\ ~results[2]["ok"]
    /\ "error" \in DOMAIN results[2]
    /\ results[2]["error"] = ErrTransport(log[2].req.op)
    /\ results[3]["ok"] /\ "error" \notin DOMAIN results[3]

\* C25: every function name the web form emits for a table is dispatched to
\* a primitive of that table's register kind: a row of the holding-register
\* table (modes read_holding, write_single, write_multi) only ever makes a
\* holding-register read or write request, never a coil request, and a row
\* of the coil table only coil requests.
C25_CoilOps == {"read_coils", "write_coil", "write_coils"}
C25_HoldingOps == {"read_holding_registers", "write_register", "write_registers"}

C25_TablePrimitives ==
    \A j \in 1..Len(log) :
      /\ rows[log[j].row] \in HoldingTableRows => log[j].req.op \in C25_HoldingOps
      /\ rows[log[j].row] \in CoilsTableRows => log[j].req.op \in C25_CoilOps

\* C26: every operation that perform_row has taken up and whose numeric
\* fields convert, a dry-run write and an unsupported function included,
\* has one connect() call, made on the client cached for its key, and any
\* request of the row goes to that client after a connect that succeeded;
\* when connect() returned false the result is the connect-failed error and
\* nothing was requested, whatever the function, the value text and dry.
C26_TakenUp(i) == i < idx \/ (i = idx /\ pc # "loop" /\ escaped # <<>>)

C26_ConnectFirst ==
    \A i \in 1..Len(rows) :
      (C26_TakenUp(i) /\ RowFault(rows[i]) = <<>>) =>
        \E m \in 1..Len(conns) :
          /\ ConnsOf(i) = {m}
          /\ RowKey(rows[i]) \in DOMAIN clients
          /\ clients[RowKey(rows[i])] = conns[m].handle
          /\ handles[conns[m].handle].key = RowKey(rows[i])
          /\ \A j \in RequestsOf(i) :
               log[j].handle = conns[m].handle /\ conns[m].outcome = "ok"
          /\ conns[m].outcome = "refused" =>
               /\ results[i] = Failed(ErrConnect(RowEndpoint(rows[i]).host,
                                                 RowEndpoint(rows[i]).port))
               /\ RequestsOf(i) = {}
          /\ (i <= Len(results) /\ "error" \in DOMAIN results[i]
                /\ results[i]["error"][1] = "unsupported function") =>
               conns[m].outcome = "ok"

C26_Witness ==
    /\ pc = "done" /\ dry /\ Len(rows) = 3 /\ Len(results) = 3 /\ log = <<>>
    /\ FnNorm(rows[1].function) = "write_coil"
    /\ results[1] = (("value" :> PyBool(TRUE)) @@ ("ok" :> TRUE))
    /\ results[2] = Failed(ErrUnsupported("frobnicate"))
    /\ FnNorm(rows[3].function) = "write_coil"
    /\ IsConnectFailed(results[3])
    /\ Len(conns) = 3
    /\ conns[1].outcome = "ok" /\ conns[2].outcome = "ok"
    /\ conns[3].outcome = "refused" /\ conns[3].handle = conns[1].handle

====
